---- MODULE Spec2Model ----
(***************************************************************************)
(* Mermaid Studio session engine (src/src/App.tsx) and share-link codec    *)
(* (src/lib/share-link.ts).                                                *)
(*                                                                         *)
(* Ten specifications share this module:                                   *)
(*   Spec          the App component: source edits, the 120ms debounce     *)
(*                 timer, the request-stamped render scheduler, the        *)
(*                 style/theme effects and the export/copy snapshot render *)
(*   SpecViewport  the PreviewPanel component: the viewport transform      *)
(*                 under the zoom buttons, the wheel and fit-to-view,      *)
(*                 driven by the props the App component hands down        *)
(*   SpecDrag      the PreviewPanel component: drag-to-pan sessions        *)
(*                 interleaved with fit-to-view, reset-zoom and props      *)
(*   SpecDragSettled  the same, every pointer-down arriving after the     *)
(*                 transformRef effect of the last commit has run          *)
(*   SpecZoom      the updater of applyZoomAroundPoint as a function of    *)
(*                 the transform, the target scale and the anchor          *)
(*   SpecCodec     encodeDiagramToken and decodeDiagramToken over drawn    *)
(*                 sources, compression backends and URL tokens            *)
(*   SpecUrl       readDiagramTokenFromUrl, writeDiagramTokenToUrl,        *)
(*                 clearDiagramTokenFromUrl and buildShareUrlForSource     *)
(*                 over drawn URLs, tokens and sources                     *)
(*   SpecShare     the App component in a browser, loaded with a URL: the  *)
(*                 share-link hydration effect and the URL sync of every   *)
(*                 committed source, interleaved with the scheduler        *)
(*   SpecSync      the App component in a browser, loaded with the plain   *)
(*                 URL: edits, commits and their concurrent URL syncs      *)
(*   SpecFit       the PreviewPanel component with its toolbar, with the   *)
(*                 fairness of the browser's animation frames              *)
(* Numbers of the viewport are JavaScript doubles in the source; the model *)
(* computes them as exact rationals (records [n, d] in lowest terms).      *)
(***************************************************************************)
EXTENDS Integers, Sequences, FiniteSets, TLC

---------------------------------------------------------------------------
(* Bounds of the model *)

\* renders (scheduler and snapshot) issued in one behaviour
MaxRequests == 3
\* debounce timers created in one behaviour
MaxTimers == 3
\* zoom steps and pointer-down events of the user in one behaviour
MaxViewOps == 2
\* UTF-16 code units of a diagram source handed to the codec
MaxSourceLen == 2

---------------------------------------------------------------------------
(* Values *)

\* DIAGRAM_PRESETS[DEFAULT_PRESET], abbreviated
DEFAULT_SOURCE == "graph TD"

\* texts typed into the editor; "a" and "ab" are rejected by the renderer
EditTexts == {"a", "ab", "abc"}

\* PRESET_SOURCES, two of the five
PresetSources == {DEFAULT_SOURCE, "sequenceDiagram"}

Sources == PresetSources \cup EditTexts

RenderStyles == {"svg", "unicode", "ascii"}

\* THEMES of beautiful-mermaid, two of them
ThemeNames == {"github-light", "github-dark"}

\* the external renderer raises an error for a source it cannot parse
RendererRejects(source) ==
    source \in {"a", "ab"}

\* the empty string of svgMarkup / asciiMarkup
EmptyMarkup == [kind |-> "", src |-> "", style |-> "", theme |-> ""]

\* what renderMermaidSVGAsync(source, getRenderOptions()) resolves to
SvgOf(source, theme) ==
    [kind |-> "svg", src |-> source, style |-> "svg", theme |-> theme]

\* what renderMermaidASCII(source, {useAscii: style = "ascii", theme}) returns
AsciiOf(source, style, theme) ==
    [kind |-> "text", src |-> source, style |-> style, theme |-> theme]

\* the empty string of renderError
NoError == [msg |-> "", src |-> ""]

\* error.message of the error the renderer raised for source
ErrorMessageOf(source) ==
    [msg |-> "parse error", src |-> source]

\* null of sourceCommitTimeoutRef (timer handles are positive)
NoTimer == 0

---------------------------------------------------------------------------
VARIABLES
    mounted,                 \* the mount effects have run
    renderStyle,             \* useState<RenderStyle>("svg")
    mermaidTheme,            \* useState<ThemeName>
    editorSource,            \* SourceEditorPanel: useState(sourceSeed)
    sourceRef,               \* sourceRef.current
    sourceCommitTimeoutRef,  \* sourceCommitTimeoutRef.current
    timers,                  \* the setTimeout callbacks not yet run or cleared
    nextTimerId,             \* the handle the next setTimeout returns
    requestIdRef,            \* requestIdRef.current
    inflight,                \* renderDiagramForSource calls awaiting the renderer
    snapshots,               \* renderSvgSnapshot calls awaiting the renderer
    svgMarkup,
    asciiMarkup,
    renderError,
    \* history variables
    issueSeq,                \* renderer calls started so far, in start order
    shownSeq,                \* start order of the call whose output was applied last
    burstEdits,              \* onEdit calls since the last timer firing or commit
    lastEditSource,          \* source of the latest onEdit call
    commitMark,              \* value of nextTimerId at the latest commitNow
    lastSettled,             \* how the renderer call that completed last settled
    \* PreviewPanel
    svgSize,                 \* useState<SvgSize | null>(null)
    transform,               \* useState<Transform>({x: 0, y: 0, scale: 1})
    transformRef,            \* transformRef.current
    dragRef,                 \* dragRef.current
    fitFrame,                \* the requestAnimationFrame callback not yet run
    pointersDown,            \* pointers pressed on the viewport element
    viewOps,                 \* zoom steps and pointer-down events so far
    \* share-link codec
    shareSource,             \* the source handed to encodeDiagramToken
    encodeBackend,           \* supportsCompressionStream() where the token is made
    decodeBackend,           \* supportsCompressionStream() where the token is read
    shareToken,              \* what encodeDiagramToken(shareSource) resolved to
    decodeResult,            \* how decodeDiagramToken(shareToken) settled
    tokenInput,              \* a token from a URL, handed to decodeDiagramToken
    foreignResult,           \* how decodeDiagramToken(tokenInput) settled
    taggedResult,            \* how decodeDiagramToken("v1.d." + tokenInput) settled
    \* share link in the address bar
    hasWindow,               \* typeof window !== "undefined"
    locationHref,            \* window.location.href, as a parsed URL
    tokenRead,               \* what readDiagramTokenFromUrl returned last
    urlArg,                  \* the URL object handed to the last URL function, after the call
    sourceSeed,              \* useState<string>(DIAGRAM_PRESETS[DEFAULT_PRESET])
    hasHydratedShareLink,    \* useState(false)
    hydration,               \* the hydration run awaiting decodeDiagramToken
    urlSyncs,                \* syncShareUrlForSource calls awaiting the token
    actionMessage,           \* useState("")
    \* history variables
    loadHref,                \* window.location.href when the page was loaded
    noticeShown              \* showActionMessage("Invalid share link", true) was called

schedVars ==
    <<mounted, renderStyle, mermaidTheme, editorSource, sourceRef,
      sourceCommitTimeoutRef, timers, nextTimerId, requestIdRef, inflight,
      snapshots, svgMarkup, asciiMarkup, renderError, issueSeq, shownSeq,
      burstEdits, lastEditSource, commitMark, lastSettled>>

viewVars ==
    <<svgSize, transform, transformRef, dragRef, fitFrame, pointersDown,
      viewOps>>

codecVars ==
    <<shareSource, encodeBackend, decodeBackend, shareToken, decodeResult,
      tokenInput, foreignResult, taggedResult>>

\* what the URL functions leave alone
hydrationVars ==
    <<hasWindow, sourceSeed, hasHydratedShareLink, hydration, urlSyncs,
      actionMessage, loadHref, noticeShown>>

shareVars ==
    <<locationHref, tokenRead, urlArg, hydrationVars>>

vars == <<schedVars, viewVars, codecVars, shareVars>>

displayed == <<svgMarkup, asciiMarkup, renderError>>

\* setRenderError, setSvgMarkup and setAsciiMarkup, batched into one update
SetDisplayed(d) ==
    /\ svgMarkup' = d[1]
    /\ asciiMarkup' = d[2]
    /\ renderError' = d[3]

---------------------------------------------------------------------------
(* The share-link codec (share-link.ts). JavaScript strings are sequences
   of UTF-16 code units, byte arrays are sequences of 0..255, and tokens are
   sequences of one-character strings. *)

\* code units of the modelled sources: "g", "é" (2 bytes in UTF-8), "€"
\* (3 bytes), U+FEFF, and the surrogate pair of U+1F600 (4 bytes)
CodeUnits == {103, 233, 8364, 65279, 55357, 56832}

\* the strings of at most n code units
RECURSIVE StringsUpTo(_)
StringsUpTo(n) ==
    IF n = 0 THEN {<< >>}
    ELSE LET shorter == StringsUpTo(n - 1)
         IN  shorter \cup {Append(s, u) : s \in shorter, u \in CodeUnits}

IsHighSurrogate(u) == u \in 55296..56319

IsLowSurrogate(u) == u \in 56320..57343

\* the conversion of a string to scalar values that TextEncoder applies:
\* a surrogate pair is one code point, a lone surrogate becomes U+FFFD
RECURSIVE ToScalarValues(_)
ToScalarValues(units) ==
    IF units = << >> THEN << >>
    ELSE IF /\ IsHighSurrogate(units[1])
            /\ Len(units) >= 2
            /\ IsLowSurrogate(units[2])
      THEN <<65536 + (units[1] - 55296) * 1024 + (units[2] - 56320)>>
              \o ToScalarValues(SubSeq(units, 3, Len(units)))
    ELSE IF IsHighSurrogate(units[1]) \/ IsLowSurrogate(units[1])
      THEN <<65533>> \o ToScalarValues(Tail(units))
    ELSE <<units[1]>> \o ToScalarValues(Tail(units))

\* the UTF-8 bytes of one scalar value
Utf8Bytes(cp) ==
    IF cp < 128 THEN <<cp>>
    ELSE IF cp < 2048 THEN <<192 + cp \div 64, 128 + (cp % 64)>>
    ELSE IF cp < 65536
      THEN <<224 + cp \div 4096, 128 + ((cp \div 64) % 64), 128 + (cp % 64)>>
    ELSE <<240 + cp \div 262144, 128 + ((cp \div 4096) % 64),
           128 + ((cp \div 64) % 64), 128 + (cp % 64)>>

RECURSIVE Utf8OfScalars(_)
Utf8OfScalars(cps) ==
    IF cps = << >> THEN << >>
    ELSE Utf8Bytes(cps[1]) \o Utf8OfScalars(Tail(cps))

\* textEncoder.encode(source)
TextEncode(source) ==
    Utf8OfScalars(ToScalarValues(source))

\* the number of continuation bytes the lead byte b announces, -1 for a
\* byte that cannot lead
Utf8Needed(b) ==
    IF b < 128 THEN 0
    ELSE IF b \in 194..223 THEN 1
    ELSE IF b \in 224..239 THEN 2
    ELSE IF b \in 240..244 THEN 3
    ELSE -1

\* the range of the byte that follows the lead byte b
Utf8SecondRange(b) ==
    IF b = 224 THEN 160..191
    ELSE IF b = 237 THEN 128..159
    ELSE IF b = 240 THEN 144..191
    ELSE IF b = 244 THEN 128..143
    ELSE 128..191

\* the length of the longest prefix of bytes that is a prefix of a valid
\* sequence led by bytes[1], at most 1 + needed
RECURSIVE Utf8ValidPrefix(_, _, _)
Utf8ValidPrefix(bytes, needed, have) ==
    IF have = 1 + needed \/ Len(bytes) <= have THEN have
    ELSE IF bytes[have + 1] \in
              (IF have = 1 THEN Utf8SecondRange(bytes[1]) ELSE 128..191)
      THEN Utf8ValidPrefix(bytes, needed, have + 1)
    ELSE have

\* the scalar value of a complete sequence of n bytes
Utf8Scalar(bytes, n) ==
    IF n = 1 THEN bytes[1]
    ELSE IF n = 2 THEN (bytes[1] - 192) * 64 + (bytes[2] - 128)
    ELSE IF n = 3
      THEN (bytes[1] - 224) * 4096 + (bytes[2] - 128) * 64 + (bytes[3] - 128)
    ELSE (bytes[1] - 240) * 262144 + (bytes[2] - 128) * 4096
            + (bytes[3] - 128) * 64 + (bytes[4] - 128)

\* the UTF-8 decoder of TextDecoder (not fatal): an ill-formed sequence
\* yields U+FFFD
RECURSIVE Utf8Decode(_)
Utf8Decode(bytes) ==
    IF bytes = << >> THEN << >>
    ELSE LET needed == Utf8Needed(bytes[1])
         IN  IF needed = -1
               THEN <<65533>> \o Utf8Decode(Tail(bytes))
               ELSE LET have == Utf8ValidPrefix(bytes, needed, 1)
                        rest == SubSeq(bytes, have + 1, Len(bytes))
                    IN  IF have = 1 + needed
                          THEN <<Utf8Scalar(bytes, have)>> \o Utf8Decode(rest)
                          ELSE <<65533>> \o Utf8Decode(rest)

\* scalar values as UTF-16 code units
RECURSIVE FromScalarValues(_)
FromScalarValues(cps) ==
    IF cps = << >> THEN << >>
    ELSE (IF cps[1] < 65536
            THEN <<cps[1]>>
            ELSE <<55296 + (cps[1] - 65536) \div 1024,
                   56320 + ((cps[1] - 65536) % 1024)>>)
         \o FromScalarValues(Tail(cps))

\* textDecoder.decode(bytes) of `new TextDecoder()`: UTF-8, not fatal,
\* ignoreBOM false, so a leading U+FEFF is dropped from the output
TextDecode(bytes) ==
    LET cps == Utf8Decode(bytes)
    IN  FromScalarValues(IF cps # << >> /\ cps[1] = 65279 THEN Tail(cps) ELSE cps)

\* the base64 alphabet of btoa / atob
Base64Alphabet ==
    <<"A", "B", "C", "D", "E", "F", "G", "H", "I", "J", "K", "L", "M",
      "N", "O", "P", "Q", "R", "S", "T", "U", "V", "W", "X", "Y", "Z",
      "a", "b", "c", "d", "e", "f", "g", "h", "i", "j", "k", "l", "m",
      "n", "o", "p", "q", "r", "s", "t", "u", "v", "w", "x", "y", "z",
      "0", "1", "2", "3", "4", "5", "6", "7", "8", "9", "+", "/">>

Base64Chars == {Base64Alphabet[i] : i \in 1..Len(Base64Alphabet)}

Base64Value(c) == (CHOOSE i \in 1..Len(Base64Alphabet) : Base64Alphabet[i] = c) - 1

Base64Char(v) == Base64Alphabet[v + 1]

\* btoa(binary)
RECURSIVE Btoa(_)
Btoa(bytes) ==
    IF bytes = << >> THEN << >>
    ELSE IF Len(bytes) = 1
      THEN <<Base64Char(bytes[1] \div 4), Base64Char((bytes[1] % 4) * 16), "=", "=">>
    ELSE IF Len(bytes) = 2
      THEN <<Base64Char(bytes[1] \div 4),
             Base64Char((bytes[1] % 4) * 16 + bytes[2] \div 16),
             Base64Char((bytes[2] % 16) * 4), "=">>
    ELSE <<Base64Char(bytes[1] \div 4),
           Base64Char((bytes[1] % 4) * 16 + bytes[2] \div 16),
           Base64Char((bytes[2] % 16) * 4 + bytes[3] \div 64),
           Base64Char(bytes[3] % 64)>>
         \o Btoa(SubSeq(bytes, 4, Len(bytes)))

\* text.replace(/from/g, to) for one-character patterns
ReplaceAll(text, from, to) ==
    [i \in 1..Len(text) |-> IF text[i] = from THEN to ELSE text[i]]

\* text.replace(/=+$/g, "")
RECURSIVE StripTrailingEquals(_)
StripTrailingEquals(text) ==
    IF text # << >> /\ text[Len(text)] = "="
      THEN StripTrailingEquals(SubSeq(text, 1, Len(text) - 1))
      ELSE text

\* mutant of bytesToBase64Url: the "=" padding is kept
bytesToBase64Url_KeepsPadding(bytes) ==
    ReplaceAll(ReplaceAll(Btoa(bytes), "+", "-"), "/", "_")

\* bytesToBase64Url(bytes)
bytesToBase64Url(bytes) ==
    StripTrailingEquals(ReplaceAll(ReplaceAll(Btoa(bytes), "+", "-"), "/", "_"))

\* the bytes of a sequence of base64 characters, left-over bits dropped
RECURSIVE Base64Bytes(_)
Base64Bytes(chars) ==
    IF Len(chars) < 2 THEN << >>
    ELSE LET v1 == Base64Value(chars[1])
             v2 == Base64Value(chars[2])
         IN  IF Len(chars) = 2 THEN <<v1 * 4 + v2 \div 16>>
             ELSE LET v3 == Base64Value(chars[3])
                  IN  IF Len(chars) = 3
                        THEN <<v1 * 4 + v2 \div 16, (v2 % 16) * 16 + v3 \div 4>>
                        ELSE <<v1 * 4 + v2 \div 16, (v2 % 16) * 16 + v3 \div 4,
                               (v3 % 4) * 64 + Base64Value(chars[4])>>
                             \o Base64Bytes(SubSeq(chars, 5, Len(chars)))

\* atob(data), the forgiving-base64 decode: [ok, bytes]
Atob(data) ==
    LET n == Len(data)
        cut == IF n % 4 = 0 /\ n >= 2 /\ data[n] = "=" /\ data[n - 1] = "=" THEN 2
               ELSE IF n % 4 = 0 /\ n >= 1 /\ data[n] = "=" THEN 1
               ELSE 0
        chars == SubSeq(data, 1, n - cut)
    IN  IF Len(chars) % 4 = 1 \/ \E i \in 1..Len(chars) : chars[i] \notin Base64Chars
          THEN [ok |-> FALSE, bytes |-> << >>]
          ELSE [ok |-> TRUE, bytes |-> Base64Bytes(chars)]

\* "=".repeat(n)
RepeatEquals(n) == [i \in 1..n |-> "="]

\* base64UrlToBytes(encoded): [ok, bytes, error]
base64UrlToBytes(encoded) ==
    IF encoded = << >>
      THEN [ok |-> FALSE, bytes |-> << >>, error |-> "Share link payload is empty."]
      ELSE LET normalized == ReplaceAll(ReplaceAll(encoded, "-", "+"), "_", "/")
               padded == normalized \o RepeatEquals((4 - (Len(normalized) % 4)) % 4)
               binary == Atob(padded)
           IN  IF binary.ok
                 THEN [ok |-> TRUE, bytes |-> binary.bytes, error |-> ""]
                 ELSE [ok |-> FALSE, bytes |-> << >>, error |-> "InvalidCharacterError"]

\* the two outcomes of supportsCompressionStream(): the platform streams or
\* the fflate functions
Backends == {"CompressionStream", "fflate"}

\* deflateSync(bytes, {level: 9}) of fflate: a DEFLATE stream with no
\* wrapper (RFC 1951), modelled as one final stored block
DeflateRaw(bytes) ==
    <<1, Len(bytes) % 256, Len(bytes) \div 256,
      255 - (Len(bytes) % 256), 255 - (Len(bytes) \div 256)>> \o bytes

\* the Adler-32 sums <<a, b>> of bytes, continued from <<a, b>>
RECURSIVE AdlerSums(_, _, _)
AdlerSums(bytes, a, b) ==
    IF bytes = << >> THEN <<a, b>>
    ELSE LET a2 == (a + bytes[1]) % 65521
         IN  AdlerSums(Tail(bytes), a2, (b + a2) % 65521)

\* the four bytes of the Adler-32 checksum, most significant first
Adler32Bytes(bytes) ==
    LET sums == AdlerSums(bytes, 1, 0)
    IN  <<sums[2] \div 256, sums[2] % 256, sums[1] \div 256, sums[1] % 256>>

\* CompressionStream("deflate"): the ZLIB format (RFC 1950), a two-byte
\* header, the DEFLATE stream and the Adler-32 of the input
ZlibDeflate(bytes) ==
    <<120, 156>> \o DeflateRaw(bytes) \o Adler32Bytes(bytes)

\* a failed inflate
InflateError == [ok |-> FALSE, bytes |-> << >>, used |-> 0]

\* the blocks of a DEFLATE stream from position pos on: [ok, bytes, used].
\* Stored blocks are read; the compressors of the model emit no other
\* block type and the inflaters of the model reject them.
RECURSIVE InflateBlocks(_, _, _)
InflateBlocks(data, pos, checkComplement) ==
    IF pos + 4 > Len(data) THEN InflateError
    ELSE LET final == data[pos] % 2
             type == (data[pos] \div 2) % 4
             len == data[pos + 1] + 256 * data[pos + 2]
             nlen == data[pos + 3] + 256 * data[pos + 4]
             last == pos + 4 + len
         IN  IF type # 0 \/ last > Len(data) THEN InflateError
             ELSE IF checkComplement /\ len + nlen # 65535 THEN InflateError
             ELSE IF final = 1
               THEN [ok |-> TRUE, bytes |-> SubSeq(data, pos + 5, last), used |-> last]
             ELSE LET rest == InflateBlocks(data, last + 1, checkComplement)
                  IN  IF rest.ok
                        THEN [ok |-> TRUE,
                              bytes |-> SubSeq(data, pos + 5, last) \o rest.bytes,
                              used |-> rest.used]
                        ELSE InflateError

\* inflateSync(bytes) of fflate: expands a DEFLATE stream with no wrapper
InflateRaw(data) ==
    InflateBlocks(data, 1, FALSE)

\* DecompressionStream("deflate"): expands the ZLIB format and rejects
\* anything else
ZlibInflate(data) ==
    IF Len(data) < 2 THEN InflateError
    ELSE IF \/ data[1] % 16 # 8
            \/ data[1] \div 16 > 7
            \/ (data[1] * 256 + data[2]) % 31 # 0
            \/ (data[2] \div 32) % 2 = 1
      THEN InflateError
    ELSE LET body == InflateBlocks(data, 3, TRUE)
         IN  IF /\ body.ok
                /\ Len(data) = body.used + 4
                /\ SubSeq(data, body.used + 1, body.used + 4) = Adler32Bytes(body.bytes)
               THEN body
               ELSE InflateError

\* compressBytes(bytes) where supportsCompressionStream() gives backend
compressBytes(bytes, backend) ==
    IF backend = "CompressionStream" THEN ZlibDeflate(bytes) ELSE DeflateRaw(bytes)

\* decompressBytes(bytes) where supportsCompressionStream() gives backend
decompressBytes(bytes, backend) ==
    IF backend = "CompressionStream" THEN ZlibInflate(bytes) ELSE InflateRaw(bytes)

\* SHARE_PREFIX = `${SHARE_VERSION}.${SHARE_ALGORITHM}.`
SHARE_PREFIX == <<"v", "1", ".", "d", ".">>

\* `${SHARE_VERSION}.`
VERSION_PREFIX == <<"v", "1", ".">>

\* token.startsWith(prefix)
StartsWith(token, prefix) ==
    Len(token) >= Len(prefix) /\ SubSeq(token, 1, Len(prefix)) = prefix

\* mutant of getPayloadFromToken: a token with an unknown tag is read as an
\* untagged payload
getPayloadFromToken_Lenient(token) ==
    IF StartsWith(token, SHARE_PREFIX)
      THEN [ok |-> TRUE, payload |-> SubSeq(token, Len(SHARE_PREFIX) + 1, Len(token))]
      ELSE [ok |-> TRUE, payload |-> token]

\* mutant of getPayloadFromToken: the "v1.d." prefix is not sliced off
getPayloadFromToken_KeepsPrefix(token) ==
    IF StartsWith(token, SHARE_PREFIX)
      THEN [ok |-> TRUE, payload |-> token]
    ELSE IF StartsWith(token, VERSION_PREFIX)
      THEN [ok |-> FALSE, payload |-> << >>]
    ELSE [ok |-> TRUE, payload |-> token]

\* getPayloadFromToken(token): [ok, payload]
getPayloadFromToken(token) ==
    IF StartsWith(token, SHARE_PREFIX)
      THEN [ok |-> TRUE, payload |-> SubSeq(token, Len(SHARE_PREFIX) + 1, Len(token))]
    ELSE IF StartsWith(token, VERSION_PREFIX)
      THEN [ok |-> FALSE, payload |-> << >>]
    ELSE [ok |-> TRUE, payload |-> token]

\* encodeDiagramToken(source)
encodeDiagramToken(source, backend) ==
    SHARE_PREFIX \o bytesToBase64Url(compressBytes(TextEncode(source), backend))

\* how a decodeDiagramToken call settles: the text it resolves to, or the
\* error it rejects with and the step that raised it
Resolved(text) ==
    [kind |-> "text", text |-> text, error |-> "", step |-> "textDecoder.decode"]

Rejected(error, step) ==
    [kind |-> "error", text |-> << >>, error |-> error, step |-> step]

\* no call has settled
NoResult == [kind |-> "none", text |-> << >>, error |-> "", step |-> ""]

\* decodeDiagramToken(token)
decodeDiagramToken(token, backend) ==
    LET payload == getPayloadFromToken(token)
    IN  IF ~payload.ok
          THEN Rejected("Unsupported share link format version.", "getPayloadFromToken")
          ELSE LET compressed == base64UrlToBytes(payload.payload)
               IN  IF ~compressed.ok
                     THEN Rejected(compressed.error, "base64UrlToBytes")
                     ELSE LET decompressed == decompressBytes(compressed.bytes, backend)
                          IN  IF ~decompressed.ok
                                THEN Rejected("decompression failed", "decompressBytes")
                                ELSE Resolved(TextDecode(decompressed.bytes))

\* tokens found in a URL: unknown or missing algorithm tags, untagged
\* payloads made by either backend, padded, empty and ill-formed payloads,
\* payloads whose bytes are a truncated or an impossible UTF-8 sequence
TokenInputs ==
    {<<"v", "1", ".", "z", ".", "A", "A", "A", "A">>,
     <<"v", "1", ".", "x", ".", "p", "a", "y", "l", "o", "a", "d">>,
     <<"v", "1", ".">>,
     <<"v", "1", ".", "d">>,
     <<"v", "1", ".", "D", ".", "A", "Q">>,
     <<"v", "1">>,
     <<"v", "2", ".", "d", ".", "A", "Q">>,
     << >>,
     <<"A">>,
     <<"A", "Q", "=", "=">>,
     <<"!", "!">>,
     bytesToBase64Url(DeflateRaw(TextEncode(<<103, 8364>>))),
     bytesToBase64Url(ZlibDeflate(TextEncode(<<103, 8364>>))),
     bytesToBase64Url(DeflateRaw(TextEncode(<<65279, 103>>))),
     bytesToBase64Url(DeflateRaw(<<103, 226, 130>>)),
     bytesToBase64Url(ZlibDeflate(<<255, 103>>))}

\* the codec idle: nothing encoded, nothing decoded
InitShare ==
    /\ shareSource = << >>
    /\ encodeBackend = "CompressionStream"
    /\ decodeBackend = "CompressionStream"
    /\ shareToken = << >>
    /\ decodeResult = NoResult
    /\ tokenInput = << >>
    /\ foreignResult = NoResult
    /\ taggedResult = NoResult

\* const token = await encodeDiagramToken(source)
EncodeToken ==
    /\ shareToken = << >>
    /\ shareToken' = encodeDiagramToken(shareSource, encodeBackend)
    /\ UNCHANGED <<shareSource, encodeBackend, decodeBackend, decodeResult,
                   tokenInput, foreignResult, taggedResult>>
    /\ UNCHANGED <<schedVars, viewVars, shareVars>>

\* const decoded = await decodeDiagramToken(token), for the token made
DecodeToken ==
    /\ shareToken # << >>
    /\ decodeResult = NoResult
    /\ decodeResult' = decodeDiagramToken(shareToken, decodeBackend)
    /\ UNCHANGED <<shareSource, encodeBackend, decodeBackend, shareToken,
                   tokenInput, foreignResult, taggedResult>>
    /\ UNCHANGED <<schedVars, viewVars, shareVars>>

\* decodeDiagramToken for a token from a URL, and for the same token behind
\* the "v1.d." prefix
DecodeForeign(token) ==
    /\ foreignResult = NoResult
    /\ tokenInput' = token
    /\ foreignResult' = decodeDiagramToken(token, decodeBackend)
    /\ taggedResult' = decodeDiagramToken(SHARE_PREFIX \o token, decodeBackend)
    /\ UNCHANGED <<shareSource, encodeBackend, decodeBackend, shareToken,
                   decodeResult>>
    /\ UNCHANGED <<schedVars, viewVars, shareVars>>

---------------------------------------------------------------------------
(* The share link in a URL *)

\* SHARE_PARAM
SHARE_PARAM == <<"d", "i", "a", "g", "r", "a", "m">>

\* the characters the application/x-www-form-urlencoded serializer writes
\* as a percent code, with the code; the space is written as "+"
FormEscapes ==
    {<<"&", <<"%", "2", "6">>>>, <<"=", <<"%", "3", "D">>>>,
     <<"+", <<"%", "2", "B">>>>, <<"%", <<"%", "2", "5">>>>,
     <<"#", <<"%", "2", "3">>>>, <<"/", <<"%", "2", "F">>>>}

\* the serializer's form of one character
FormEncodeChar(c) ==
    IF c = " " THEN <<"+">>
    ELSE IF \E e \in FormEscapes : e[1] = c
      THEN (CHOOSE e \in FormEscapes : e[1] = c)[2]
    ELSE <<c>>

\* the serializer's form of a name or a value
RECURSIVE FormEncode(_)
FormEncode(text) ==
    IF text = << >> THEN << >>
    ELSE FormEncodeChar(text[1]) \o FormEncode(Tail(text))

\* the parser's reading of a name or a value: "+" is a space, a percent
\* code is its character, anything else is itself
RECURSIVE FormDecode(_)
FormDecode(text) ==
    IF text = << >> THEN << >>
    ELSE IF text[1] = "+" THEN <<" ">> \o FormDecode(Tail(text))
    ELSE IF /\ text[1] = "%"
            /\ Len(text) >= 3
            /\ \E e \in FormEscapes : e[2] = SubSeq(text, 1, 3)
      THEN <<(CHOOSE e \in FormEscapes : e[2] = SubSeq(text, 1, 3))[1]>>
              \o FormDecode(SubSeq(text, 4, Len(text)))
    ELSE <<text[1]>> \o FormDecode(Tail(text))

\* the position of the first sep in text, 0 when there is none
FirstIndexOf(text, sep) ==
    IF \E i \in 1..Len(text) : text[i] = sep
      THEN CHOOSE i \in 1..Len(text) :
              text[i] = sep /\ \A j \in 1..(i - 1) : text[j] # sep
      ELSE 0

\* text.split(sep)
RECURSIVE SplitOn(_, _)
SplitOn(text, sep) ==
    LET at == FirstIndexOf(text, sep)
    IN  IF at = 0 THEN <<text>>
        ELSE <<SubSeq(text, 1, at - 1)>>
                \o SplitOn(SubSeq(text, at + 1, Len(text)), sep)

\* one name=value piece as a <<name, value>> pair
ParsePair(piece) ==
    LET at == FirstIndexOf(piece, "=")
    IN  IF at = 0 THEN <<FormDecode(piece), << >>>>
        ELSE <<FormDecode(SubSeq(piece, 1, at - 1)),
               FormDecode(SubSeq(piece, at + 1, Len(piece)))>>

\* new URLSearchParams(query): the list of <<name, value>> pairs
ParseParams(query) ==
    LET pieces == SelectSeq(SplitOn(query, "&"), LAMBDA piece : piece # << >>)
    IN  [i \in 1..Len(pieces) |-> ParsePair(pieces[i])]

\* params.toString()
RECURSIVE SerializeParams(_)
SerializeParams(params) ==
    IF params = << >> THEN << >>
    ELSE FormEncode(params[1][1]) \o <<"=">> \o FormEncode(params[1][2])
            \o (IF Len(params) > 1 THEN <<"&">> ELSE << >>)
            \o SerializeParams(Tail(params))

\* null of URLSearchParams.get
NullValue == [found |-> FALSE, value |-> << >>]

\* params.get(name)
ParamsGet(params, name) ==
    IF \E i \in 1..Len(params) : params[i][1] = name
      THEN [found |-> TRUE,
            value |-> params[CHOOSE i \in 1..Len(params) :
                                 /\ params[i][1] = name
                                 /\ \A j \in 1..(i - 1) : params[j][1] # name][2]]
      ELSE NullValue

\* params.delete(name)
ParamsDelete(params, name) ==
    SelectSeq(params, LAMBDA pair : pair[1] # name)

\* params.set(name, value): the first pair of the name takes the value, the
\* others of the name go; a new pair is appended when there was none
ParamsSet(params, name, value) ==
    IF \E i \in 1..Len(params) : params[i][1] = name
      THEN LET first == CHOOSE i \in 1..Len(params) :
                            /\ params[i][1] = name
                            /\ \A j \in 1..(i - 1) : params[j][1] # name
           IN  SubSeq(params, 1, first - 1) \o <<<<name, value>>>>
                  \o ParamsDelete(SubSeq(params, first + 1, Len(params)), name)
      ELSE Append(params, <<name, value>>)

\* url.hash: the fragment behind "#", or "" when there is none
UrlHash(url) ==
    IF url.hash = << >> THEN << >> ELSE <<"#">> \o url.hash

\* new URLSearchParams(url.hash.startsWith("#") ? url.hash.slice(1) : url.hash)
HashParams(url) ==
    LET hash == UrlHash(url)
    IN  ParseParams(IF hash # << >> /\ hash[1] = "#" THEN Tail(hash) ELSE hash)

\* nextUrl.hash = value: one leading "#" of the value is not part of the
\* fragment
SetHash(value) ==
    IF value # << >> /\ value[1] = "#" THEN Tail(value) ELSE value

\* mutant of readDiagramTokenFromUrl: the query string is looked at first
readDiagramTokenFromUrl_QueryFirst(url) ==
    LET fromQuery == ParamsGet(ParseParams(url.search), SHARE_PARAM)
    IN  IF fromQuery.found THEN fromQuery ELSE ParamsGet(HashParams(url), SHARE_PARAM)

\* readDiagramTokenFromUrl(url)
readDiagramTokenFromUrl(url) ==
    LET fromHash == ParamsGet(HashParams(url), SHARE_PARAM)
    IN  IF fromHash.found THEN fromHash ELSE ParamsGet(ParseParams(url.search), SHARE_PARAM)

\* mutant of writeDiagramTokenToUrl: the query-string copy stays
writeDiagramTokenToUrl_KeepsQuery(url, token) ==
    [url EXCEPT
        !.hash = SetHash(SerializeParams(ParamsSet(HashParams(url), SHARE_PARAM, token)))]

\* writeDiagramTokenToUrl(url, token)
writeDiagramTokenToUrl(url, token) ==
    [url EXCEPT
        !.hash = SetHash(SerializeParams(ParamsSet(HashParams(url), SHARE_PARAM, token))),
        !.search = SerializeParams(ParamsDelete(ParseParams(url.search), SHARE_PARAM))]

\* mutant of clearDiagramTokenFromUrl: only the fragment is cleared
clearDiagramTokenFromUrl_KeepsQuery(url) ==
    [url EXCEPT
        !.hash = SetHash(SerializeParams(ParamsDelete(HashParams(url), SHARE_PARAM)))]

\* clearDiagramTokenFromUrl(url)
clearDiagramTokenFromUrl(url) ==
    [url EXCEPT
        !.hash = SetHash(SerializeParams(ParamsDelete(HashParams(url), SHARE_PARAM))),
        !.search = SerializeParams(ParamsDelete(ParseParams(url.search), SHARE_PARAM))]

\* the UTF-16 code units of the source texts of the model
SourceUnits(source) ==
    CASE source = "graph TD" -> <<103, 114, 97, 112, 104, 32, 84, 68>>
      [] source = "sequenceDiagram" -> <<115, 101, 113, 117, 101, 110, 99, 101, 68, 105, 97, 103, 114, 97, 109>>
      [] source = "erDiagram" -> <<101, 114, 68, 105, 97, 103, 114, 97, 109>>
      [] source = "a" -> <<97>>
      [] source = "ab" -> <<97, 98>>
      [] source = "abc" -> <<97, 98, 99>>
      [] OTHER -> << >>

\* PRESET_SOURCES, as code units
PresetUnits == {SourceUnits(p) : p \in PresetSources}

\* the code units String.prototype.trim removes
WhiteSpace == {9, 10, 11, 12, 13, 32, 160, 65279}

\* source.trim()
RECURSIVE Trim(_)
Trim(units) ==
    IF units = << >> THEN << >>
    ELSE IF units[1] \in WhiteSpace THEN Trim(Tail(units))
    ELSE IF units[Len(units)] \in WhiteSpace
      THEN Trim(SubSeq(units, 1, Len(units) - 1))
    ELSE units

\* mutant of buildShareUrlForSource: every source is written as a token
buildShareUrlForSource_NoElision(source, currentUrl, backend) ==
    writeDiagramTokenToUrl(currentUrl, encodeDiagramToken(source, backend))

\* buildShareUrlForSource(source, currentUrl)
buildShareUrlForSource(source, currentUrl, backend) ==
    IF Len(Trim(source)) = 0 \/ source \in PresetUnits
      THEN clearDiagramTokenFromUrl(currentUrl)
      ELSE writeDiagramTokenToUrl(currentUrl, encodeDiagramToken(source, backend))

\* sources handed to buildShareUrlForSource: empty, of white space only,
\* presets, and texts that are neither (one with white space at its ends)
ShareSources ==
    {<< >>, <<32>>, <<32, 10, 9>>,
     SourceUnits("graph TD"), SourceUnits("sequenceDiagram"),
     SourceUnits("abc"), <<32, 97, 10>>, <<103, 114, 97, 112, 104, 32, 84, 68, 10>>}

\* URLs as the URL parser holds them: origin, pathname, the query string
\* behind "?" and the fragment behind "#"
UrlInputs ==
    {[origin |-> "https://studio.test", pathname |-> "/",
      search |-> << >>,
      hash |-> << >>],
     [origin |-> "https://studio.test", pathname |-> "/",
      search |-> << >>,
      hash |-> <<"d", "i", "a", "g", "r", "a", "m", "=", "v", "1", ".", "d", ".", "A", "Q">>],
     [origin |-> "https://studio.test", pathname |-> "/",
      search |-> <<"d", "i", "a", "g", "r", "a", "m", "=", "e", "J", "w">>,
      hash |-> << >>],
     [origin |-> "https://studio.test", pathname |-> "/",
      search |-> <<"d", "i", "a", "g", "r", "a", "m", "=", "e", "J", "w">>,
      hash |-> <<"d", "i", "a", "g", "r", "a", "m", "=", "v", "1", ".", "d", ".", "A", "Q">>],
     [origin |-> "https://studio.test", pathname |-> "/",
      search |-> <<"x", "=", "1", "&", "d", "i", "a", "g", "r", "a", "m", "=", "e", "J", "w", "&", "y", "=", "2">>,
      hash |-> <<"s", "e", "c", "t", "i", "o", "n">>],
     [origin |-> "https://studio.test", pathname |-> "/",
      search |-> <<"d", "i", "a", "g", "r", "a", "m", "=", "e", "J", "w">>,
      hash |-> <<"d", "i", "a", "g", "r", "a", "m", "=">>],
     [origin |-> "https://studio.test", pathname |-> "/",
      search |-> << >>,
      hash |-> <<"a", "=", "1", "&", "d", "i", "a", "g", "r", "a", "m", "=", "a", "+", "b", "%", "2", "6", "c", "&", "d", "i", "a", "g", "r", "a", "m", "=", "e", "J", "w">>],
     [origin |-> "https://studio.test", pathname |-> "/",
      search |-> <<"d", "i", "a", "g", "r", "a", "m", "=", "e", "J", "w", "&", "d", "i", "a", "g", "r", "a", "m", "=", "A", "Q">>,
      hash |-> <<"b">>],
     [origin |-> "https://studio.test", pathname |-> "/",
      search |-> <<"q", "=", "1">>,
      hash |-> <<"d", "i", "a", "g", "r", "a", "m", "=", "v", "1", ".", "d", ".", "A", "Q">>],
     [origin |-> "https://studio.test", pathname |-> "/",
      search |-> <<"d", "i", "a", "g", "r", "a", "m", "=", "A", "Q", "&", "q", "=", "1">>,
      hash |-> <<"t", "=", "1", "&", "d", "i", "a", "g", "r", "a", "m", "=", "e", "J", "w">>],
     [origin |-> "https://studio.test", pathname |-> "/",
      search |-> <<"l", "a", "n", "g", "=", "e", "n">>,
      hash |-> << >>],
     [origin |-> "https://studio.test", pathname |-> "/",
      search |-> << >>,
      hash |-> <<"d", "i", "a", "g", "r", "a", "m", "=", "e", "J", "w", "&", "z", "=", "9">>]}

\* tokens handed to writeDiagramTokenToUrl: tokens of the codec, the empty
\* string, and strings of characters the serializer escapes
UrlTokens ==
    {encodeDiagramToken(<<103>>, "fflate"),
     encodeDiagramToken(<< >>, "CompressionStream"),
     << >>,
     <<"a", " ", "b">>,
     <<"a", "&", "b", "=", "c", "+", "%", "#", "/">>}

\* no readDiagramTokenFromUrl call made
NotRead == [found |-> FALSE, value |-> <<"?">>]

\* mutant of WriteCall: the URL passed in is changed in place and returned
WriteCall_InPlace(url, token) ==
    [argument |-> writeDiagramTokenToUrl(url, token),
     returned |-> writeDiagramTokenToUrl(url, token)]

\* the two URL objects after writeDiagramTokenToUrl(url, token): nextUrl is
\* new URL(url.toString()), and only nextUrl is assigned to
WriteCall(url, token) ==
    [argument |-> url, returned |-> writeDiagramTokenToUrl(url, token)]

\* the two URL objects after clearDiagramTokenFromUrl(url)
ClearCall(url) ==
    [argument |-> url, returned |-> clearDiagramTokenFromUrl(url)]

\* readDiagramTokenFromUrl(url) for the URL at hand
ReadToken ==
    /\ tokenRead' = readDiagramTokenFromUrl(locationHref)
    /\ urlArg' = locationHref
    /\ UNCHANGED <<locationHref, hydrationVars>>
    /\ UNCHANGED <<schedVars, viewVars, codecVars>>

\* url = writeDiagramTokenToUrl(url, token)
WriteToken(token) ==
    /\ locationHref' = WriteCall(locationHref, token).returned
    /\ urlArg' = WriteCall(locationHref, token).argument
    /\ tokenRead' = NotRead
    /\ UNCHANGED hydrationVars
    /\ UNCHANGED <<schedVars, viewVars, codecVars>>

\* url = clearDiagramTokenFromUrl(url)
ClearToken ==
    /\ locationHref' = ClearCall(locationHref).returned
    /\ urlArg' = ClearCall(locationHref).argument
    /\ tokenRead' = NotRead
    /\ UNCHANGED hydrationVars
    /\ UNCHANGED <<schedVars, viewVars, codecVars>>

\* url = await buildShareUrlForSource(source, url)
BuildShareUrl(source) ==
    /\ shareSource' = source
    /\ locationHref' = buildShareUrlForSource(source, locationHref, encodeBackend)
    /\ urlArg' = locationHref
    /\ tokenRead' = NotRead
    /\ UNCHANGED hydrationVars
    /\ UNCHANGED <<encodeBackend, decodeBackend, shareToken, decodeResult,
                   tokenInput, foreignResult, taggedResult>>
    /\ UNCHANGED <<schedVars, viewVars>>

\* a URL with no share link
PlainUrl ==
    [origin |-> "https://studio.test", pathname |-> "/",
     search |-> << >>, hash |-> << >>]

\* no hydration run is awaiting decodeDiagramToken
NoHydration == [token |-> <<"?">>, url |-> PlainUrl, sync |-> FALSE]

\* the share-link state of a session that was loaded with the plain URL and
\* has run no effect yet; window: `typeof window` is not "undefined"
InitShareIdle(window) ==
    /\ hasWindow = window
    /\ locationHref = PlainUrl
    /\ tokenRead = NotRead
    /\ urlArg = locationHref
    /\ sourceSeed = DEFAULT_SOURCE
    /\ hasHydratedShareLink = FALSE
    /\ hydration = NoHydration
    /\ urlSyncs = {}
    /\ actionMessage = ""
    /\ loadHref = locationHref
    /\ noticeShown = FALSE

\* the component rendered where `typeof window` is "undefined": the share
\* effects return at once
InitNoWindow ==
    InitShareIdle(FALSE)

---------------------------------------------------------------------------
(* The share link of the session *)

\* the source text of the model that has the code units, "" when none has
SourceOfUnits(units) ==
    IF \E source \in Sources : SourceUnits(source) = units
      THEN CHOOSE source \in Sources : SourceUnits(source) = units
      ELSE ""

\* decodeDiagramToken(token) settles in a later task: the token reaches the
\* DecompressionStream.  Otherwise it settles before the next task: it
\* throws before decompressBytes, or inflateSync runs at once.
DecodeIsAsync(token, backend) ==
    /\ backend = "CompressionStream"
    /\ getPayloadFromToken(token).ok
    /\ base64UrlToBytes(getPayloadFromToken(token).payload).ok

\* buildShareUrlForSource(source, url) settles in a later task: the source
\* reaches the CompressionStream
EncodeIsAsync(source, backend) ==
    /\ backend = "CompressionStream"
    /\ ~(Len(Trim(source)) = 0 \/ source \in PresetUnits)

\* the share-link hydration effect up to its await, after the cleanup of its
\* earlier run (isCancelled = true)
HydrationEffect ==
    IF ~hasWindow THEN UNCHANGED <<hydration, hasHydratedShareLink>>
    ELSE LET token == readDiagramTokenFromUrl(locationHref)
         IN  IF ~token.found \/ token.value = << >>
               THEN /\ hydration' = NoHydration
                    /\ hasHydratedShareLink' = TRUE
               ELSE /\ hydration' =
                          [token |-> token.value, url |-> locationHref,
                           sync |-> ~DecodeIsAsync(token.value, decodeBackend)]
                    /\ UNCHANGED hasHydratedShareLink

\* what a step that runs the hydration effect leaves alone
HydrationFrame ==
    UNCHANGED <<locationHref, tokenRead, urlArg, hasWindow, sourceSeed, urlSyncs,
                actionMessage, loadHref, noticeShown>>

\* mutant of syncShareUrlForSource: the call does not wait for the hydration
syncShareUrlForSource_Ungated(nextSource, hydrated) ==
    IF ~hasWindow THEN UNCHANGED <<locationHref, urlSyncs>>
    ELSE IF EncodeIsAsync(SourceUnits(nextSource), encodeBackend)
      THEN /\ urlSyncs' = urlSyncs \cup {[src |-> nextSource, url |-> locationHref]}
           /\ UNCHANGED locationHref
    ELSE /\ locationHref' =
               buildShareUrlForSource(SourceUnits(nextSource), locationHref, encodeBackend)
         /\ UNCHANGED urlSyncs

\* syncShareUrlForSource(nextSource), called through a closure that captured
\* hasHydratedShareLink = hydrated
syncShareUrlForSource(nextSource, hydrated) ==
    IF ~hasWindow \/ ~hydrated THEN UNCHANGED <<locationHref, urlSyncs>>
    ELSE IF EncodeIsAsync(SourceUnits(nextSource), encodeBackend)
      THEN /\ urlSyncs' = urlSyncs \cup {[src |-> nextSource, url |-> locationHref]}
           /\ UNCHANGED locationHref
    ELSE /\ locationHref' =
               buildShareUrlForSource(SourceUnits(nextSource), locationHref, encodeBackend)
         /\ UNCHANGED urlSyncs

\* what a step that calls syncShareUrlForSource leaves alone
SyncFrame ==
    UNCHANGED <<tokenRead, urlArg, hasWindow, sourceSeed, hasHydratedShareLink,
                hydration, actionMessage, loadHref, noticeShown>>

\* the token of the call s has been made: the rest of syncShareUrlForSource
SyncSettle(s) ==
    LET nextUrl == buildShareUrlForSource(SourceUnits(s.src), s.url, encodeBackend)
    IN  /\ s \in urlSyncs
        /\ urlSyncs' = urlSyncs \ {s}
        /\ locationHref' = IF nextUrl # s.url THEN nextUrl ELSE locationHref
        /\ SyncFrame
        /\ UNCHANGED <<schedVars, viewVars, codecVars>>

\* mutant of showActionMessage: nothing is shown
showActionMessage_Silent(message) ==
    UNCHANGED <<actionMessage, noticeShown>>

\* showActionMessage(message, isError); noticeShown records that the
\* "Invalid share link" notice has been on the screen
showActionMessage(message) ==
    /\ actionMessage' = message
    /\ noticeShown' = (noticeShown \/ message = "Invalid share link")

\* mutant of ActionMessageTimeout: the callback also resets the source
ActionMessageTimeout_ResetsSource ==
    /\ actionMessage # ""
    /\ actionMessage' = ""
    /\ sourceRef' = DEFAULT_SOURCE
    /\ UNCHANGED <<mounted, renderStyle, mermaidTheme, editorSource,
                   sourceCommitTimeoutRef, timers, nextTimerId, requestIdRef,
                   inflight, snapshots, svgMarkup, asciiMarkup, renderError,
                   issueSeq, shownSeq, burstEdits, lastEditSource, commitMark,
                   lastSettled>>
    /\ UNCHANGED <<locationHref, tokenRead, urlArg, hasWindow, sourceSeed,
                   hasHydratedShareLink, hydration, urlSyncs, loadHref,
                   noticeShown>>
    /\ UNCHANGED <<viewVars, codecVars>>

\* the setTimeout callback of showActionMessage
ActionMessageTimeout ==
    /\ actionMessage # ""
    /\ actionMessage' = ""
    /\ UNCHANGED <<locationHref, tokenRead, urlArg, hasWindow, sourceSeed,
                   hasHydratedShareLink, hydration, urlSyncs, loadHref,
                   noticeShown>>
    /\ UNCHANGED <<schedVars, viewVars, codecVars>>

---------------------------------------------------------------------------
(* The render scheduler *)

\* mutant of IsCurrentRequest: the stamp is not compared
IsCurrentRequest_NoFence(requestId, current) ==
    TRUE

\* `requestId !== requestIdRef.current` is false
IsCurrentRequest(requestId, current) ==
    requestId = current

\* the three setters of the success branch for style "svg"
SvgSuccess(svg) ==
    <<svg, EmptyMarkup, NoError>>

\* the three setters of the success branch for the text styles
AsciiSuccess(ascii) ==
    <<EmptyMarkup, ascii, NoError>>

\* mutant of RenderFailure: the catch branch keeps the last good markup
RenderFailure_KeepsMarkup(source) ==
    <<svgMarkup, asciiMarkup, ErrorMessageOf(source)>>

\* the three setters of the catch branch
RenderFailure(source) ==
    <<EmptyMarkup, EmptyMarkup, ErrorMessageOf(source)>>

\* the promise of renderDiagramForSource: the try/catch spans the renderer call
RenderSettles(failed) ==
    "fulfilled"

\* the promise of renderSvgSnapshot: no try/catch, the error reaches the caller
SnapshotSettles(failed) ==
    IF failed THEN "rejected" ELSE "fulfilled"

\* history record of a completed renderer call: which call, its source and
\* stamp, the counter when it completed, and how its promise settled
Settled(call, source, stamp, counter, outcome) ==
    [call |-> call, src |-> source, stamp |-> stamp, counter |-> counter,
     failed |-> (call # "none" /\ RendererRejects(source)), outcome |-> outcome]

\* mutant of NextRequestId: the counter is read and not incremented
NextRequestId_NoIncrement(current) ==
    current

\* ++requestIdRef.current
NextRequestId(current) ==
    current + 1

\* renderDiagramForSource(nextSource), called through a closure that captured
\* (style, theme).  The svg branch suspends at the await; the text branch runs
\* to its end in the same step.
renderDiagramForSource(nextSource, style, theme) ==
    LET requestId == NextRequestId(requestIdRef)
        seq == issueSeq + 1
    IN  /\ requestIdRef' = requestId
        /\ issueSeq' = seq
        /\ IF style = "svg"
             THEN /\ inflight' = inflight \cup
                        {[stamp |-> requestId, src |-> nextSource,
                          theme |-> theme, seq |-> seq]}
                  /\ UNCHANGED <<svgMarkup, asciiMarkup, renderError,
                                 shownSeq, lastSettled>>
             ELSE /\ inflight' = inflight
                  /\ lastSettled' = Settled("render", nextSource, requestId,
                                             requestIdRef', RenderSettles(RendererRejects(nextSource)))
                  /\ IF IsCurrentRequest(requestId, requestIdRef')
                       THEN /\ SetDisplayed(
                                 IF RendererRejects(nextSource)
                                   THEN RenderFailure(nextSource)
                                   ELSE AsciiSuccess(AsciiOf(nextSource, style, theme)))
                            /\ shownSeq' = seq
                       ELSE UNCHANGED <<svgMarkup, asciiMarkup, renderError, shownSeq>>

\* the renderer settles the call r; the rest of renderDiagramForSource runs
RenderComplete(r) ==
    /\ r \in inflight
    /\ inflight' = inflight \ {r}
    /\ lastSettled' = Settled("render", r.src, r.stamp, requestIdRef,
                               RenderSettles(RendererRejects(r.src)))
    /\ IF IsCurrentRequest(r.stamp, requestIdRef)
         THEN /\ SetDisplayed(
                   IF RendererRejects(r.src)
                     THEN RenderFailure(r.src)
                     ELSE SvgSuccess(SvgOf(r.src, r.theme)))
              /\ shownSeq' = r.seq
         ELSE UNCHANGED <<svgMarkup, asciiMarkup, renderError, shownSeq>>
    /\ UNCHANGED <<mounted, renderStyle, mermaidTheme, editorSource, sourceRef,
                   sourceCommitTimeoutRef, timers, nextTimerId, requestIdRef,
                   snapshots, issueSeq, burstEdits, lastEditSource, commitMark>>
    /\ UNCHANGED <<viewVars, codecVars, shareVars>>

---------------------------------------------------------------------------
(* The debounce timer *)

\* clearTimeout(handle)
ClearTimeout(pending, handle) ==
    {t \in pending : t.id # handle}

\* mutant of InputTimer: the pending timer is not cleared
InputTimer_NoClear(T, nextSource, style, theme, hydrated) ==
    [ref |-> T.next,
     pending |-> T.pending \cup {[id |-> T.next, src |-> nextSource,
                                  style |-> style, theme |-> theme,
                                  hydrated |-> hydrated]},
     next |-> T.next + 1]

\* the timer part of handleSourceInput: T = [ref, pending, next].  The
\* callback closes over the renderDiagramForSource (style, theme) and the
\* syncShareUrlForSource (hydrated) of the render that made the handler.
InputTimer(T, nextSource, style, theme, hydrated) ==
    [ref |-> T.next,
     pending |-> (IF T.ref # NoTimer THEN ClearTimeout(T.pending, T.ref) ELSE T.pending)
                  \cup {[id |-> T.next, src |-> nextSource,
                         style |-> style, theme |-> theme,
                         hydrated |-> hydrated]},
     next |-> T.next + 1]

\* mutant of CommitTimer: the handle is dropped, the timer is not cleared
CommitTimer_NoClear(T) ==
    [ref |-> NoTimer, pending |-> T.pending, next |-> T.next]

\* the timer part of commitSourceNow
CommitTimer(T) ==
    [ref |-> NoTimer,
     pending |-> IF T.ref # NoTimer THEN ClearTimeout(T.pending, T.ref) ELSE T.pending,
     next |-> T.next]

TimerState ==
    [ref |-> sourceCommitTimeoutRef, pending |-> timers, next |-> nextTimerId]

\* SourceEditorPanel.handleSourceChange -> handleSourceInput(nextSource)
handleSourceInput(nextSource) ==
    LET T == InputTimer(TimerState, nextSource, renderStyle, mermaidTheme,
                          hasHydratedShareLink)
    IN  /\ mounted
        /\ nextTimerId <= MaxTimers
        /\ editorSource' = nextSource
        /\ sourceRef' = nextSource
        /\ sourceCommitTimeoutRef' = T.ref
        /\ timers' = T.pending
        /\ nextTimerId' = T.next
        /\ burstEdits' = burstEdits + 1
        /\ lastEditSource' = nextSource
        /\ UNCHANGED <<mounted, renderStyle, mermaidTheme, requestIdRef, inflight,
                       snapshots, svgMarkup, asciiMarkup, renderError, issueSeq,
                       shownSeq, commitMark, lastSettled>>
        /\ UNCHANGED <<viewVars, codecVars, shareVars>>

\* the setTimeout callback of handleSourceInput
TimerFire(t) ==
    /\ t \in timers
    /\ issueSeq < MaxRequests
    /\ timers' = timers \ {t}
    /\ renderDiagramForSource(t.src, t.style, t.theme)
    /\ syncShareUrlForSource(t.src, t.hydrated)
    /\ sourceCommitTimeoutRef' = NoTimer
    /\ burstEdits' = 0
    /\ UNCHANGED <<mounted, renderStyle, mermaidTheme, editorSource, sourceRef,
                   nextTimerId, snapshots, lastEditSource, commitMark>>
    /\ SyncFrame
    /\ UNCHANGED <<viewVars, codecVars>>

\* commitSourceNow(nextSource)
commitSourceNow(nextSource) ==
    LET T == CommitTimer(TimerState)
    IN  /\ mounted
        /\ issueSeq < MaxRequests
        /\ sourceRef' = nextSource
        /\ sourceCommitTimeoutRef' = T.ref
        /\ timers' = T.pending
        /\ renderDiagramForSource(nextSource, renderStyle, mermaidTheme)
        /\ syncShareUrlForSource(nextSource, hasHydratedShareLink)
        /\ burstEdits' = 0
        /\ commitMark' = nextTimerId
        /\ UNCHANGED <<mounted, renderStyle, mermaidTheme, editorSource,
                       nextTimerId, snapshots, lastEditSource>>
        /\ SyncFrame
        /\ UNCHANGED <<viewVars, codecVars>>

\* textarea onBlur={() => onSourceCommit(source)}
Blur ==
    commitSourceNow(editorSource)

\* SourceEditorPanel.applySelectedPreset: setSource, onSourceInput and
\* onSourceCommit for the preset's source, one after the other
applySelectedPreset(nextSource) ==
    LET T1 == InputTimer(TimerState, nextSource, renderStyle, mermaidTheme,
                          hasHydratedShareLink)
        T2 == CommitTimer(T1)
    IN  /\ mounted
        /\ nextTimerId <= MaxTimers
        /\ issueSeq < MaxRequests
        /\ editorSource' = nextSource
        /\ sourceRef' = nextSource
        /\ sourceCommitTimeoutRef' = T2.ref
        /\ timers' = T2.pending
        /\ nextTimerId' = T2.next
        /\ renderDiagramForSource(nextSource, renderStyle, mermaidTheme)
        /\ syncShareUrlForSource(nextSource, hasHydratedShareLink)
        /\ burstEdits' = 0
        /\ lastEditSource' = nextSource
        /\ commitMark' = T1.next
        /\ UNCHANGED <<mounted, renderStyle, mermaidTheme, snapshots>>
        /\ SyncFrame
        /\ UNCHANGED <<viewVars, codecVars>>

---------------------------------------------------------------------------
(* Style and theme *)

\* onRenderStyleChange={setRenderStyle}, then the effect
\* "Render on style/theme changes" of the commit that follows
setRenderStyle(style) ==
    /\ mounted
    /\ style # renderStyle
    /\ issueSeq < MaxRequests
    /\ renderStyle' = style
    /\ HydrationEffect
    /\ renderDiagramForSource(sourceRef, style, mermaidTheme)
    /\ UNCHANGED <<mounted, mermaidTheme, editorSource, sourceRef,
                   sourceCommitTimeoutRef, timers, nextTimerId, snapshots,
                   burstEdits, lastEditSource, commitMark>>
    /\ HydrationFrame
    /\ UNCHANGED <<viewVars, codecVars>>

\* onValueChange={(v) => setMermaidTheme(v)}, then the same effect
setMermaidTheme(theme) ==
    /\ mounted
    /\ theme # mermaidTheme
    /\ issueSeq < MaxRequests
    /\ mermaidTheme' = theme
    /\ HydrationEffect
    /\ renderDiagramForSource(sourceRef, renderStyle, theme)
    /\ UNCHANGED <<mounted, renderStyle, editorSource, sourceRef,
                   sourceCommitTimeoutRef, timers, nextTimerId, snapshots,
                   burstEdits, lastEditSource, commitMark>>
    /\ HydrationFrame
    /\ UNCHANGED <<viewVars, codecVars>>

\* decodeDiagramToken has settled: the rest of the hydration run that was
\* not cancelled
HydrationSettle ==
    LET decoded == decodeDiagramToken(hydration.token, decodeBackend)
        text == SourceOfUnits(decoded.text)
        canonicalUrl == writeDiagramTokenToUrl(hydration.url, hydration.token)
    IN  /\ hydration # NoHydration
        /\ IF decoded.kind = "text"
             THEN /\ sourceRef' = text
                  /\ sourceSeed' = text
                  /\ editorSource' = IF text # sourceSeed THEN text ELSE editorSource
                  /\ renderDiagramForSource(text, renderStyle, mermaidTheme)
                  /\ locationHref' =
                        IF canonicalUrl # hydration.url THEN canonicalUrl ELSE locationHref
                  /\ UNCHANGED <<actionMessage, noticeShown>>
             ELSE /\ showActionMessage("Invalid share link")
                  /\ UNCHANGED <<sourceRef, sourceSeed, editorSource, locationHref,
                                 requestIdRef, inflight, svgMarkup, asciiMarkup,
                                 renderError, issueSeq, shownSeq, lastSettled>>
        /\ hasHydratedShareLink' = TRUE
        /\ hydration' = NoHydration
        /\ UNCHANGED <<mounted, renderStyle, mermaidTheme, sourceCommitTimeoutRef,
                       timers, nextTimerId, snapshots, burstEdits, lastEditSource,
                       commitMark>>
        /\ UNCHANGED <<tokenRead, urlArg, hasWindow, urlSyncs, loadHref>>
        /\ UNCHANGED <<viewVars, codecVars>>

---------------------------------------------------------------------------
(* Export and copy *)

\* renderSvgSnapshot up to its await, called by handleCopySvg, handleCopyPng,
\* handleSvgDownload and handlePngDownload
renderSvgSnapshot ==
    /\ mounted
    /\ issueSeq < MaxRequests
    /\ issueSeq' = issueSeq + 1
    /\ snapshots' = snapshots \cup
           {[src |-> sourceRef, theme |-> mermaidTheme, seq |-> issueSeq + 1]}
    /\ UNCHANGED <<mounted, renderStyle, mermaidTheme, editorSource, sourceRef,
                   sourceCommitTimeoutRef, timers, nextTimerId, requestIdRef,
                   inflight, svgMarkup, asciiMarkup, renderError, shownSeq,
                   burstEdits, lastEditSource, commitMark, lastSettled>>
    /\ UNCHANGED <<viewVars, codecVars, shareVars>>

\* the renderer settles the snapshot call s: setSvgMarkup(renderedSvg), or the
\* error reaches the handler's catch
SnapshotComplete(s) ==
    /\ s \in snapshots
    /\ snapshots' = snapshots \ {s}
    /\ lastSettled' = Settled("snapshot", s.src, 0, requestIdRef,
                               SnapshotSettles(RendererRejects(s.src)))
    /\ IF RendererRejects(s.src)
         THEN UNCHANGED <<svgMarkup, shownSeq>>
         ELSE /\ svgMarkup' = SvgOf(s.src, s.theme)
              /\ shownSeq' = s.seq
    /\ UNCHANGED <<mounted, renderStyle, mermaidTheme, editorSource, sourceRef,
                   sourceCommitTimeoutRef, timers, nextTimerId, requestIdRef,
                   inflight, asciiMarkup, renderError, issueSeq, burstEdits,
                   lastEditSource, commitMark>>
    /\ UNCHANGED <<viewVars, codecVars, shareVars>>

---------------------------------------------------------------------------
(* Exact rational arithmetic for the viewport numbers: [n, d], d > 0,
   in lowest terms *)

Abs(i) == IF i < 0 THEN -i ELSE i

RECURSIVE GCD(_, _)
GCD(a, b) == IF b = 0 THEN a ELSE GCD(b, a % b)

Rat(n, d) ==
    LET sn == IF d < 0 THEN -n ELSE n
        sd == Abs(d)
        g == GCD(Abs(sn), sd)
    IN  [n |-> sn \div g, d |-> sd \div g]

RInt(i) == [n |-> i, d |-> 1]

RAdd(a, b) ==
    LET g == GCD(a.d, b.d)
    IN  Rat(a.n * (b.d \div g) + b.n * (a.d \div g), (a.d \div g) * b.d)

RNeg(a) == [n |-> -a.n, d |-> a.d]

RSub(a, b) == RAdd(a, RNeg(b))

RMul(a, b) ==
    LET g1 == GCD(Abs(a.n), b.d)
        g2 == GCD(Abs(b.n), a.d)
    IN  Rat((a.n \div g1) * (b.n \div g2), (a.d \div g2) * (b.d \div g1))

\* a / b for b # 0
RDiv(a, b) == RMul(a, Rat(b.d, b.n))

RLess(a, b) == a.n * b.d < b.n * a.d

RLeq(a, b) == a.n * b.d <= b.n * a.d

\* Math.min and Math.max
RMin(a, b) == IF RLess(b, a) THEN b ELSE a

RMax(a, b) == IF RLess(a, b) THEN b ELSE a

---------------------------------------------------------------------------
(* The viewport of PreviewPanel *)

\* const MIN_SCALE = 0.2
MIN_SCALE == Rat(1, 5)

\* const MAX_SCALE = 16
MAX_SCALE == 16

\* const pad = 48 of fitToView
FIT_PAD == 48

\* the factors of the zoom buttons: zoomByFactor(0.9), zoomByFactor(1.1)
ButtonFactors == {Rat(9, 10), Rat(11, 10)}

\* the factors of handleWheelZoom: deltaY < 0 ? 1.08 : 0.92
WheelFactor(deltaY) == IF deltaY < 0 THEN Rat(27, 25) ELSE Rat(23, 25)

\* event.deltaY of the wheel events
WheelDeltas == {-100, 0, 100}

\* the viewport element: getBoundingClientRect() and clientWidth/clientHeight
ViewportRect == [left |-> 440, top |-> 120, clientWidth |-> 800, clientHeight |-> 600]

\* (clientX, clientY) of the wheel and pointer-down events
ClientPoints == {<<500, 150>>}

\* (clientX, clientY) of the pointer-move events
MovePoints == {<<500, 150>>, <<1140, 640>>}

PointerIds == {1, 2}

\* null of svgSize
NoSize == [width |-> 0, height |-> 0]

\* null of dragRef.current
NoDrag ==
    [pointerId |-> 0, startClientX |-> 0, startClientY |-> 0,
     startX |-> RInt(0), startY |-> RInt(0)]

\* sources whose rendering the PreviewPanel is handed
ViewSources == {DEFAULT_SOURCE, "sequenceDiagram", "abc", "erDiagram"}

\* extractSvgSize(svgMarkup): the viewBox (or width/height) of the markup the
\* renderer produced, null when the markup carries no positive size
extractSvgSize(markup) ==
    CASE markup.src = DEFAULT_SOURCE -> [width |-> 400, height |-> 300]
      [] markup.src = "sequenceDiagram" -> [width |-> 8000, height |-> 6000]
      [] markup.src = "abc" -> [width |-> 20, height |-> 15]
      [] OTHER -> NoSize

\* mutant of clamp: the upper limit is not applied
clamp_NoUpperLimit(value, min, max) ==
    RMax(min, value)

\* clamp(value, min, max) = Math.min(max, Math.max(min, value))
clamp(value, min, max) ==
    RMin(max, RMax(min, value))

\* const isSvgReady = renderStyle === "svg" && !!svgMarkup
isSvgReady ==
    renderStyle = "svg" /\ svgMarkup # EmptyMarkup

\* mutant of ZoomAroundPoint: the translation is kept as it was
ZoomAroundPoint_KeepsTranslation(cur, nextScale, anchorX, anchorY) ==
    [scale |-> clamp(nextScale, MIN_SCALE, RInt(MAX_SCALE)), x |-> cur.x, y |-> cur.y]

\* the updater of applyZoomAroundPoint, applied to the state cur
ZoomAroundPoint(cur, nextScale, anchorX, anchorY) ==
    LET scale == clamp(nextScale, MIN_SCALE, RInt(MAX_SCALE))
        wx == RDiv(RSub(anchorX, cur.x), cur.scale)
        wy == RDiv(RSub(anchorY, cur.y), cur.scale)
    IN  [scale |-> scale,
         x |-> RSub(anchorX, RMul(wx, scale)),
         y |-> RSub(anchorY, RMul(wy, scale))]

\* mutant of FitTransform: the padding is not subtracted
FitTransform_NoPad(size) ==
    LET vp == ViewportRect
        rawScale == RMin(RDiv(RInt(vp.clientWidth), RInt(size.width)),
                         RDiv(RInt(vp.clientHeight), RInt(size.height)))
        scale == clamp(rawScale, MIN_SCALE, RInt(MAX_SCALE))
    IN  [scale |-> scale,
         x |-> RDiv(RSub(RInt(vp.clientWidth), RMul(RInt(size.width), scale)), RInt(2)),
         y |-> RDiv(RSub(RInt(vp.clientHeight), RMul(RInt(size.height), scale)), RInt(2))]

\* the transform fitToView sets for a known size
FitTransform(size) ==
    LET vp == ViewportRect
        rawScale == RMin(RDiv(RInt(vp.clientWidth - FIT_PAD), RInt(size.width)),
                         RDiv(RInt(vp.clientHeight - FIT_PAD), RInt(size.height)))
        scale == clamp(rawScale, MIN_SCALE, RInt(MAX_SCALE))
    IN  [scale |-> scale,
         x |-> RDiv(RSub(RInt(vp.clientWidth), RMul(RInt(size.width), scale)), RInt(2)),
         y |-> RDiv(RSub(RInt(vp.clientHeight), RMul(RInt(size.height), scale)), RInt(2))]

\* mutant of FitToView: without a size the transform is reset, not kept
FitToView_ResetsWithoutSize(cur, size) ==
    IF size = NoSize
      THEN [scale |-> RInt(1), x |-> RInt(0), y |-> RInt(0)]
      ELSE FitTransform(size)

\* fitToView through a closure that captured size: `if (!svgSize) return`
FitToView(cur, size) ==
    IF size = NoSize THEN cur ELSE FitTransform(size)

\* zoomToScale(nextScale): zoom around the centre of the viewport
ZoomToScale(cur, nextScale) ==
    ZoomAroundPoint(cur, nextScale,
                    Rat(ViewportRect.clientWidth, 2),
                    Rat(ViewportRect.clientHeight, 2))

\* nextScale arguments of applyZoomAroundPoint
ZoomTargets == {Rat(1, 10), Rat(1, 5), Rat(27, 25), RInt(2), RInt(16), RInt(1000)}

\* anchorX, anchorY arguments of applyZoomAroundPoint, in viewport pixels
ZoomAnchors == {<<0, 0>>, <<60, 30>>, <<400, 300>>, <<800, 600>>}

\* applyZoomAroundPoint(nextScale, anchorX, anchorY): setTransform(updater)
applyZoomAroundPoint(nextScale, anchorX, anchorY) ==
    /\ viewOps < MaxViewOps
    /\ viewOps' = viewOps + 1
    /\ transform' = ZoomAroundPoint(transform, nextScale, RInt(anchorX), RInt(anchorY))
    /\ UNCHANGED <<svgSize, transformRef, dragRef, fitFrame, pointersDown>>
    /\ UNCHANGED <<schedVars, codecVars, shareVars>>

\* the App component re-renders PreviewPanel with new renderStyle and
\* svgMarkup props; the svgSize effect and the auto-fit effect run
PreviewProps(style, markup) ==
    LET size == IF style # "svg" \/ markup = EmptyMarkup
                  THEN NoSize
                  ELSE extractSvgSize(markup)
    IN  /\ <<style, markup>> # <<renderStyle, svgMarkup>>
        /\ renderStyle' = style
        /\ svgMarkup' = markup
        /\ svgSize' = size
        /\ fitFrame' = IF style = "svg" /\ size # NoSize /\ hasWindow
                          THEN size ELSE NoSize
        /\ UNCHANGED <<transform, transformRef, dragRef, pointersDown, viewOps>>
        /\ UNCHANGED <<mounted, mermaidTheme, editorSource, sourceRef,
                       sourceCommitTimeoutRef, timers, nextTimerId, requestIdRef,
                       inflight, snapshots, asciiMarkup, renderError, issueSeq,
                       shownSeq, burstEdits, lastEditSource, commitMark,
                       lastSettled>>
        /\ UNCHANGED <<codecVars, shareVars>>

\* mutant of FitFrameFire: the frame callback runs without fitting
FitFrameFire_NoFit ==
    /\ fitFrame # NoSize
    /\ fitFrame' = NoSize
    /\ UNCHANGED <<svgSize, transform, transformRef, dragRef, pointersDown, viewOps>>
    /\ UNCHANGED <<schedVars, codecVars, shareVars>>

\* the frame callback of the auto-fit effect: fitToView()
FitFrameFire ==
    /\ fitFrame # NoSize
    /\ transform' = FitToView(transform, fitFrame)
    /\ fitFrame' = NoSize
    /\ UNCHANGED <<svgSize, transformRef, dragRef, pointersDown, viewOps>>
    /\ UNCHANGED <<schedVars, codecVars, shareVars>>

\* the Fit button: onClick={fitToView}
FitButton ==
    /\ isSvgReady
    /\ transform' = FitToView(transform, svgSize)
    /\ UNCHANGED <<svgSize, transformRef, dragRef, fitFrame, pointersDown, viewOps>>
    /\ UNCHANGED <<schedVars, codecVars, shareVars>>

\* the effect that copies transform into transformRef after a commit
SyncTransformRef ==
    /\ transformRef # transform
    /\ transformRef' = transform
    /\ UNCHANGED <<svgSize, transform, dragRef, fitFrame, pointersDown, viewOps>>
    /\ UNCHANGED <<schedVars, codecVars, shareVars>>

\* the zoom buttons: onClick={() => zoomByFactor(factor)}
zoomByFactor(factor) ==
    /\ isSvgReady
    /\ viewOps < MaxViewOps
    /\ viewOps' = viewOps + 1
    /\ transform' = ZoomToScale(transform, RMul(transformRef.scale, factor))
    /\ UNCHANGED <<svgSize, transformRef, dragRef, fitFrame, pointersDown>>
    /\ UNCHANGED <<schedVars, codecVars, shareVars>>

\* the percentage button: onClick={() => zoomToScale(1)}
ResetZoom ==
    /\ isSvgReady
    /\ viewOps < MaxViewOps
    /\ viewOps' = viewOps + 1
    /\ transform' = ZoomToScale(transform, RInt(1))
    /\ UNCHANGED <<svgSize, transformRef, dragRef, fitFrame, pointersDown>>
    /\ UNCHANGED <<schedVars, codecVars, shareVars>>

\* onWheel={isSvgReady ? handleWheelZoom : undefined}
handleWheelZoom(deltaY, clientX, clientY) ==
    /\ isSvgReady
    /\ viewOps < MaxViewOps
    /\ viewOps' = viewOps + 1
    /\ transform' = ZoomAroundPoint(transform,
                        RMul(transformRef.scale, WheelFactor(deltaY)),
                        RInt(clientX - ViewportRect.left),
                        RInt(clientY - ViewportRect.top))
    /\ UNCHANGED <<svgSize, transformRef, dragRef, fitFrame, pointersDown>>
    /\ UNCHANGED <<schedVars, codecVars, shareVars>>

\* a pointer goes down with the primary button; handlePointerDown runs when
\* the handlers are attached
handlePointerDown(pointerId, clientX, clientY) ==
    /\ pointerId \notin pointersDown
    /\ viewOps < MaxViewOps
    /\ viewOps' = viewOps + 1
    /\ pointersDown' = pointersDown \cup {pointerId}
    /\ dragRef' = IF isSvgReady
                    THEN [pointerId |-> pointerId,
                          startClientX |-> clientX, startClientY |-> clientY,
                          startX |-> transformRef.x, startY |-> transformRef.y]
                    ELSE dragRef
    /\ UNCHANGED <<svgSize, transform, transformRef, fitFrame>>
    /\ UNCHANGED <<schedVars, codecVars, shareVars>>

\* mutant of MatchesSession: the pointer id is not compared
MatchesSession_AnyPointer(drag, pointerId) ==
    drag # NoDrag

\* `if (!drag || drag.pointerId !== event.pointerId) return` does not return
MatchesSession(drag, pointerId) ==
    drag # NoDrag /\ drag.pointerId = pointerId

\* mutant of DragTransform: the pointer delta is added to the current
\* translation, not to the recorded start
DragTransform_FromCurrent(cur, drag, clientX, clientY) ==
    [scale |-> cur.scale,
     x |-> RAdd(cur.x, RInt(clientX - drag.startClientX)),
     y |-> RAdd(cur.y, RInt(clientY - drag.startClientY))]

\* the updater of handlePointerMove
DragTransform(cur, drag, clientX, clientY) ==
    [scale |-> cur.scale,
     x |-> RAdd(drag.startX, RInt(clientX - drag.startClientX)),
     y |-> RAdd(drag.startY, RInt(clientY - drag.startClientY))]

\* a pointer moves over the viewport; handlePointerMove
handlePointerMove(pointerId, clientX, clientY) ==
    /\ transform' =
          IF isSvgReady /\ MatchesSession(dragRef, pointerId)
            THEN DragTransform(transform, dragRef, clientX, clientY)
            ELSE transform
    /\ UNCHANGED <<svgSize, transformRef, dragRef, fitFrame, pointersDown, viewOps>>
    /\ UNCHANGED <<schedVars, codecVars, shareVars>>

\* a pointer is released or cancelled; handlePointerUp
handlePointerUp(pointerId) ==
    /\ pointerId \in pointersDown
    /\ pointersDown' = pointersDown \ {pointerId}
    /\ dragRef' = IF isSvgReady /\ MatchesSession(dragRef, pointerId)
                    THEN NoDrag
                    ELSE dragRef
    /\ UNCHANGED <<svgSize, transform, transformRef, fitFrame, viewOps>>
    /\ UNCHANGED <<schedVars, codecVars, shareVars>>

---------------------------------------------------------------------------
\* the App component after construction
InitApp ==
    /\ mounted = FALSE
    /\ renderStyle = "svg"
    /\ mermaidTheme = "github-light"
    /\ editorSource = DEFAULT_SOURCE
    /\ sourceRef = DEFAULT_SOURCE
    /\ sourceCommitTimeoutRef = NoTimer
    /\ timers = {}
    /\ nextTimerId = 1
    /\ requestIdRef = 0
    /\ inflight = {}
    /\ snapshots = {}
    /\ svgMarkup = EmptyMarkup
    /\ asciiMarkup = EmptyMarkup
    /\ renderError = NoError
    /\ issueSeq = 0
    /\ shownSeq = 0
    /\ burstEdits = 0
    /\ lastEditSource = DEFAULT_SOURCE
    /\ commitMark = 1
    /\ lastSettled = Settled("none", "", 0, 0, "none")

\* useState<Transform>({x: 0, y: 0, scale: 1})
InitialTransform == [x |-> RInt(0), y |-> RInt(0), scale |-> RInt(1)]

Init ==
    /\ InitApp
    /\ svgSize = NoSize
    /\ transform = InitialTransform
    /\ transformRef = transform
    /\ dragRef = NoDrag
    /\ fitFrame = NoSize
    /\ pointersDown = {}
    /\ viewOps = 0
    /\ InitShare
    /\ InitNoWindow

\* the PreviewPanel in a browser
InitPanel ==
    /\ InitApp
    /\ svgSize = NoSize
    /\ transform = InitialTransform
    /\ transformRef = transform
    /\ dragRef = NoDrag
    /\ fitFrame = NoSize
    /\ pointersDown = {}
    /\ viewOps = 0
    /\ InitShare
    /\ InitShareIdle(TRUE)

\* the effects of the first commit: the share-link hydration effect and
\* "Render on style/theme changes"
Mount ==
    /\ ~mounted
    /\ mounted' = TRUE
    /\ HydrationEffect
    /\ renderDiagramForSource(sourceRef, renderStyle, mermaidTheme)
    /\ UNCHANGED <<renderStyle, mermaidTheme, editorSource, sourceRef,
                   sourceCommitTimeoutRef, timers, nextTimerId, snapshots,
                   burstEdits, lastEditSource, commitMark>>
    /\ HydrationFrame
    /\ UNCHANGED <<viewVars, codecVars>>

Next ==
    \/ Mount
    \/ \E s \in EditTexts : handleSourceInput(s)
    \/ \E t \in timers : TimerFire(t)
    \/ Blur
    \/ \E p \in PresetSources : applySelectedPreset(p)
    \/ \E r \in inflight : RenderComplete(r)
    \/ \E st \in RenderStyles : setRenderStyle(st)
    \/ \E th \in ThemeNames : setMermaidTheme(th)
    \/ renderSvgSnapshot
    \/ \E s \in snapshots : SnapshotComplete(s)

Spec == Init /\ [][Next]_vars

\* the markup props the App component can hand to PreviewPanel
PreviewMarkups ==
    {EmptyMarkup} \cup {SvgOf(src, "github-light") : src \in ViewSources}

\* the (renderStyle, svgMarkup) props: any markup in svg style; in a text
\* style no markup, or the markup an export snapshot left behind
PanelProps ==
    {<<"svg", m>> : m \in PreviewMarkups}
        \cup {<<"unicode", EmptyMarkup>>,
              <<"unicode", SvgOf(DEFAULT_SOURCE, "github-light")>>}

NextViewport ==
    \/ \E pr \in PanelProps : PreviewProps(pr[1], pr[2])
    \/ FitFrameFire
    \/ FitButton
    \/ SyncTransformRef
    \/ \E f \in ButtonFactors : zoomByFactor(f)
    \/ ResetZoom
    \/ \E dy \in WheelDeltas, c \in ClientPoints : handleWheelZoom(dy, c[1], c[2])

SpecViewport == InitPanel /\ [][NextViewport]_vars

\* the panel with the toolbar only: new surfaces, the auto-fit frame, the
\* Fit button and the zoom buttons
NextFit ==
    \/ \E pr \in PanelProps : PreviewProps(pr[1], pr[2])
    \/ FitFrameFire
    \/ FitButton
    \/ SyncTransformRef
    \/ \E f \in ButtonFactors : zoomByFactor(f)
    \/ ResetZoom

\* the steps of FitFrameFire among those of the panel: the requested frame
\* is consumed while the props stay as they are
FitFrameRuns ==
    /\ fitFrame # NoSize
    /\ fitFrame' = NoSize
    /\ UNCHANGED <<renderStyle, svgMarkup, svgSize>>

\* the browser runs the callback of a requested animation frame unless the
\* frame is cancelled
SpecFit == InitPanel /\ [][NextFit]_vars /\ WF_fitFrame(FitFrameRuns)

\* the props of the drag scenarios: the surface shown (two sizes), the
\* surface gone after a render failure, and a text style
DragProps ==
    {<<"svg", SvgOf(DEFAULT_SOURCE, "github-light")>>,
     <<"svg", SvgOf("abc", "github-light")>>,
     <<"svg", EmptyMarkup>>,
     <<"unicode", EmptyMarkup>>}

NextDrag ==
    \/ \E pr \in DragProps : PreviewProps(pr[1], pr[2])
    \/ FitFrameFire
    \/ FitButton
    \/ SyncTransformRef
    \/ ResetZoom
    \/ \E p \in PointerIds, c \in ClientPoints : handlePointerDown(p, c[1], c[2])
    \/ \E p \in PointerIds, c \in MovePoints : handlePointerMove(p, c[1], c[2])
    \/ \E p \in PointerIds : handlePointerUp(p)

SpecDrag == InitPanel /\ [][NextDrag]_vars

\* drag sessions of a user who presses the pointer only after the effects of
\* the last commit have run: handlePointerDown reads a transformRef that
\* holds the current transform
NextDragSettled ==
    \/ \E pr \in DragProps : PreviewProps(pr[1], pr[2])
    \/ FitFrameFire
    \/ FitButton
    \/ SyncTransformRef
    \/ ResetZoom
    \/ \E p \in PointerIds, c \in ClientPoints :
          transformRef = transform /\ handlePointerDown(p, c[1], c[2])
    \/ \E p \in PointerIds, c \in MovePoints : handlePointerMove(p, c[1], c[2])
    \/ \E p \in PointerIds : handlePointerUp(p)

SpecDragSettled == InitPanel /\ [][NextDragSettled]_vars

\* transforms the panel shows: the initial one and the fits of the three
\* sized surfaces
KnownTransforms ==
    {InitialTransform} \cup
    {FitTransform(extractSvgSize(SvgOf(src, "github-light"))) :
        src \in ViewSources \ {"erDiagram"}}

InitZoom ==
    /\ InitApp
    /\ svgSize = NoSize
    /\ transform \in KnownTransforms
    /\ transformRef = transform
    /\ dragRef = NoDrag
    /\ fitFrame = NoSize
    /\ pointersDown = {}
    /\ viewOps = 0
    /\ InitShare
    /\ InitShareIdle(TRUE)

NextZoom ==
    \E t \in ZoomTargets, a \in ZoomAnchors : applyZoomAroundPoint(t, a[1], a[2])

SpecZoom == InitZoom /\ [][NextZoom]_vars

\* a diagram source to share, and the backend of the browser that makes the
\* link and of the browser that opens it
InitCodec ==
    /\ InitApp
    /\ svgSize = NoSize
    /\ transform = InitialTransform
    /\ transformRef = transform
    /\ dragRef = NoDrag
    /\ fitFrame = NoSize
    /\ pointersDown = {}
    /\ viewOps = 0
    /\ shareSource \in StringsUpTo(MaxSourceLen)
    /\ encodeBackend \in Backends
    /\ decodeBackend \in Backends
    /\ shareToken = << >>
    /\ decodeResult = NoResult
    /\ tokenInput = << >>
    /\ foreignResult = NoResult
    /\ taggedResult = NoResult
    /\ InitNoWindow

NextCodec ==
    \/ EncodeToken
    \/ DecodeToken
    \/ \E token \in TokenInputs : DecodeForeign(token)

SpecCodec == InitCodec /\ [][NextCodec]_vars

\* a URL handed to readDiagramTokenFromUrl, writeDiagramTokenToUrl and
\* clearDiagramTokenFromUrl
InitUrl ==
    /\ InitApp
    /\ svgSize = NoSize
    /\ transform = InitialTransform
    /\ transformRef = transform
    /\ dragRef = NoDrag
    /\ fitFrame = NoSize
    /\ pointersDown = {}
    /\ viewOps = 0
    /\ shareSource = << >>
    /\ encodeBackend \in Backends
    /\ decodeBackend = encodeBackend
    /\ shareToken = << >>
    /\ decodeResult = NoResult
    /\ tokenInput = << >>
    /\ foreignResult = NoResult
    /\ taggedResult = NoResult
    /\ hasWindow = TRUE
    /\ locationHref \in UrlInputs
    /\ tokenRead = NotRead
    /\ urlArg = locationHref
    /\ sourceSeed = DEFAULT_SOURCE
    /\ hasHydratedShareLink = FALSE
    /\ hydration = NoHydration
    /\ urlSyncs = {}
    /\ actionMessage = ""
    /\ loadHref = locationHref
    /\ noticeShown = FALSE

NextUrl ==
    \/ ReadToken
    \/ \E token \in UrlTokens : WriteToken(token)
    \/ ClearToken
    \/ \E source \in ShareSources : BuildShareUrl(source)

SpecUrl == InitUrl /\ [][NextUrl]_vars

\* a URL of the page with `diagram` = token in its fragment
FragmentLink(token) ==
    [PlainUrl EXCEPT !.hash = SHARE_PARAM \o <<"=">> \o token]

\* a URL of the page with `diagram` = token in its query string
QueryLink(token) ==
    [PlainUrl EXCEPT !.search = SHARE_PARAM \o <<"=">> \o token]

\* the URL the page is loaded with and the backend of the browser: no share
\* link; a link to "ab" that decodes, in a later task and at once; a link
\* made with the other backend; a link with an unknown algorithm tag; an
\* empty token
StartPages ==
    {<<PlainUrl, "CompressionStream">>,
     <<FragmentLink(encodeDiagramToken(SourceUnits("ab"), "CompressionStream")),
       "CompressionStream">>,
     <<QueryLink(encodeDiagramToken(SourceUnits("ab"), "fflate")), "fflate">>,
     <<FragmentLink(encodeDiagramToken(SourceUnits("ab"), "fflate")),
       "CompressionStream">>,
     <<FragmentLink(<<"v", "1", ".", "z", ".", "A", "A", "A", "A">>), "fflate">>,
     <<FragmentLink(<< >>), "fflate">>}

\* the App component in a browser, loaded with a URL
InitShareLink ==
    /\ InitApp
    /\ svgSize = NoSize
    /\ transform = InitialTransform
    /\ transformRef = transform
    /\ dragRef = NoDrag
    /\ fitFrame = NoSize
    /\ pointersDown = {}
    /\ viewOps = 0
    /\ shareSource = << >>
    /\ \E page \in StartPages :
          /\ locationHref = page[1]
          /\ encodeBackend = page[2]
    /\ decodeBackend = encodeBackend
    /\ shareToken = << >>
    /\ decodeResult = NoResult
    /\ tokenInput = << >>
    /\ foreignResult = NoResult
    /\ taggedResult = NoResult
    /\ hasWindow = TRUE
    /\ tokenRead = NotRead
    /\ urlArg = locationHref
    /\ sourceSeed = DEFAULT_SOURCE
    /\ hasHydratedShareLink = FALSE
    /\ hydration = NoHydration
    /\ urlSyncs = {}
    /\ actionMessage = ""
    /\ loadHref = locationHref
    /\ noticeShown = FALSE

\* a hydration run whose decodeDiagramToken settles before the next task
MicrotaskPending ==
    hydration # NoHydration /\ hydration.sync

\* texts typed into the editor of the loaded page
ShareEdits == {"abc"}

\* the render styles the user switches between
ShareStyles == {"svg", "unicode"}

\* an event of the browser's task queue: it runs when no microtask is left
Task(Handler) ==
    ~MicrotaskPending /\ Handler

NextShare ==
    \/ HydrationSettle
    \/ Task(Mount)
    \/ \E s \in ShareEdits : Task(handleSourceInput(s))
    \/ \E t \in timers : Task(TimerFire(t))
    \/ Task(Blur)
    \/ \E r \in inflight : Task(RenderComplete(r))
    \/ \E st \in ShareStyles : Task(setRenderStyle(st))
    \/ \E s \in urlSyncs : Task(SyncSettle(s))
    \/ Task(ActionMessageTimeout)

SpecShare == InitShareLink /\ [][NextShare]_vars

\* texts typed one after the other into the editor of the plain page
SyncEdits == {"ab", "abc"}

\* the App component in a browser with CompressionStream, loaded with the
\* plain URL
InitSync ==
    /\ InitShareLink
    /\ locationHref = PlainUrl
    /\ encodeBackend = "CompressionStream"

\* edits and commits on the plain page, and the URL syncs they start (the
\* hydration run of a URL without a token ends in the mount step)
NextSync ==
    \/ Task(Mount)
    \/ \E s \in SyncEdits : Task(handleSourceInput(s))
    \/ \E t \in timers : Task(TimerFire(t))
    \/ Task(Blur)
    \/ \E r \in inflight : Task(RenderComplete(r))
    \/ \E s \in urlSyncs : Task(SyncSettle(s))

SpecSync == InitSync /\ [][NextSync]_vars

---------------------------------------------------------------------------
(* Claims about the render scheduler, checked under Spec *)

NonEmptyMarkup(m) == m # EmptyMarkup

\* the step issues a renderDiagramForSource call for source through the
\* current closure: it is awaiting the renderer with the new stamp, or (text
\* styles) it has already run to its end and its result is displayed
IssuesRenderFor(source) ==
    /\ requestIdRef' = requestIdRef + 1
    /\ \/ /\ renderStyle = "svg"
          /\ inflight' \ inflight =
                {[stamp |-> requestIdRef', src |-> source,
                  theme |-> mermaidTheme, seq |-> issueSeq']}
       \/ /\ renderStyle # "svg"
          /\ inflight' = inflight
          /\ lastSettled'.call = "render"
          /\ lastSettled'.src = source
          /\ lastSettled'.stamp = requestIdRef'

\* C1: a completing scheduler render changes svgMarkup, asciiMarkup and
\* renderError only if its stamp equals the request counter at completion
\* time, and otherwise leaves them as they were; every issued render takes the
\* counter plus one as its stamp, so the stamps of the renders in flight are
\* distinct, at most the counter, and increase in issue order.
C1_StampFence ==
    /\ [](\A r1, r2 \in inflight :
            /\ r1.stamp \in 1..requestIdRef
            /\ (r1.stamp = r2.stamp => r1 = r2)
            /\ (r1.stamp < r2.stamp <=> r1.seq < r2.seq))
    /\ [][/\ \A r \in inflight \ inflight' :
                r.stamp # requestIdRef => displayed' = displayed
          /\ \A r \in inflight' \ inflight :
                r.stamp = requestIdRef + 1 /\ requestIdRef' = requestIdRef + 1
          /\ requestIdRef' \in {requestIdRef, requestIdRef + 1}]_vars

\* C1 witness: a render completes with a stamp older than the counter while
\* a different result is on display
C1_Witness ==
    /\ lastSettled.call = "render"
    /\ lastSettled.stamp < lastSettled.counter
    /\ ~lastSettled.failed
    /\ svgMarkup # SvgOf(lastSettled.src, mermaidTheme)
    /\ NonEmptyMarkup(svgMarkup)

\* the markup the preview shows for the current style
ShownMarkup ==
    IF renderStyle = "svg" THEN svgMarkup ELSE asciiMarkup

\* C2: once the output of a later-started renderer call has been displayed,
\* the output of an earlier-started call is never displayed afterwards:
\* whenever the markup the preview shows changes, the call whose output was
\* applied last started no earlier than the one applied before. This covers
\* the scheduler's renders and the export/copy snapshot render.
C2_OlderNeverOverwritesNewer ==
    [][ShownMarkup' # ShownMarkup => shownSeq' >= shownSeq]_vars

\* C3: at most one debounce timer is pending; a pending timer is the one of
\* the latest onEdit call of the running burst; when it fires it issues
\* exactly one render, for the source of that latest call, and leaves no
\* timer of the burst behind.
C3_DebounceCoalescing ==
    /\ [](/\ Cardinality(timers) <= 1
          /\ \A t \in timers : t.src = lastEditSource /\ burstEdits >= 1)
    /\ [][\A t \in timers :
            TimerFire(t) =>
                /\ t.src = lastEditSource
                /\ requestIdRef' = requestIdRef + 1
                /\ issueSeq' = issueSeq + 1
                /\ timers' = {}
                /\ burstEdits' = 0]_vars

\* C3 witness: three onEdit calls ran while a timer was pending, the last one
\* for "abc", and the timer fired once, rendering "abc"
C3_Witness ==
    /\ nextTimerId = 4
    /\ timers = {}
    /\ requestIdRef = 2
    /\ commitMark = 1
    /\ lastEditSource = "abc"
    /\ \E r \in inflight : r.stamp = 2 /\ r.src = "abc"

\* C4: commitNow(source) leaves no timer pending and issues a render for
\* source in the same step; a timer pending afterwards was created after
\* the latest commitNow.
C4_CommitNow ==
    /\ [](\A t \in timers : t.id >= commitMark)
    /\ [][/\ commitSourceNow(editorSource) =>
                /\ timers' = {}
                /\ sourceCommitTimeoutRef' = NoTimer
                /\ sourceRef' = editorSource
                /\ IssuesRenderFor(editorSource)
          /\ \A p \in PresetSources :
                applySelectedPreset(p) =>
                    /\ timers' = {}
                    /\ sourceCommitTimeoutRef' = NoTimer
                    /\ IssuesRenderFor(p)]_vars

\* C4 witness: a commit ran while a timer was pending
C4_Witness ==
    /\ commitMark = 2
    /\ nextTimerId = 2
    /\ timers = {}
    /\ requestIdRef = 2
    /\ lastEditSource = "abc"
    /\ sourceRef = "abc"

\* C38: applying a preset issues exactly one render, in the same step and
\* for the preset's source; the timer its onEdit call started and a timer
\* pending from earlier typing are both cancelled, so no timer created
\* before the commit fires a render afterwards.
C38_PresetRendersOnce ==
    /\ [][\A p \in PresetSources :
            applySelectedPreset(p) =>
                /\ issueSeq' = issueSeq + 1
                /\ IssuesRenderFor(p)
                /\ nextTimerId' = nextTimerId + 1
                /\ timers' = {}
                /\ sourceCommitTimeoutRef' = NoTimer]_vars
    /\ [][\A t \in timers : TimerFire(t) => t.id >= commitMark]_vars

\* C38 witness: "abc" was typed (timer 1 pending), then the sequence preset
\* was applied (timer 2): two renders in all, the mount's and the preset's,
\* and no timer is pending
C38_Witness ==
    /\ mounted
    /\ nextTimerId = 3
    /\ commitMark = 3
    /\ timers = {}
    /\ issueSeq = 2
    /\ requestIdRef = 2
    /\ editorSource = "sequenceDiagram"
    /\ sourceRef = "sequenceDiagram"

\* C5: when the renderer fails for the request that is current at completion
\* time, renderError is the message and svgMarkup and asciiMarkup are empty;
\* the promise of renderDiagramForSource is never rejected.
C5_FailureHandled ==
    /\ lastSettled.call = "render" => lastSettled.outcome = "fulfilled"
    /\ (/\ lastSettled.call = "render"
        /\ lastSettled.failed
        /\ lastSettled.stamp = lastSettled.counter)
       => displayed = <<EmptyMarkup, EmptyMarkup, ErrorMessageOf(lastSettled.src)>>

\* C5 witness: a failure was displayed, and a later edit was rendered and
\* displayed after it
C5_Witness ==
    /\ lastSettled.call = "render"
    /\ lastSettled.failed
    /\ lastSettled.stamp = lastSettled.counter
    /\ renderError = ErrorMessageOf("a")

C5_WitnessLaterEdit ==
    /\ requestIdRef = 3
    /\ shownSeq = 3
    /\ svgMarkup = SvgOf("abc", mermaidTheme)
    /\ renderError = NoError
    /\ nextTimerId = 3

\* C6: at most one of svgMarkup, asciiMarkup and renderError is non-empty.
C6_AtMostOneCurrent ==
    Cardinality({i \in 1..3 :
        \/ i = 1 /\ NonEmptyMarkup(svgMarkup)
        \/ i = 2 /\ NonEmptyMarkup(asciiMarkup)
        \/ i = 3 /\ renderError # NoError}) <= 1

\* the markup the preview shows was rendered with the selected style
ShownInStyle ==
    IF ShownMarkup = EmptyMarkup THEN FALSE ELSE ShownMarkup.style = renderStyle

\* no timer is pending and no renderer call is awaited
Quiescent ==
    timers = {} /\ inflight = {} /\ snapshots = {}

\* C27: after a change of the render style (the session starts in "svg"),
\* once all timers have fired and all renders have completed, the result the
\* preview shows was rendered with the selected style, also when a debounce
\* timer of an earlier edit was pending at the moment of the change
C27_StyleChangeInvalidates ==
    (mounted /\ renderStyle # "svg" /\ Quiescent /\ renderError = NoError)
        => ShownInStyle

\* the scheduler's renderer calls that have started and not completed and
\* whose result would pass the stamp fence if they completed now
CurrentInFlight ==
    {r \in inflight : IsCurrentRequest(r.stamp, requestIdRef)}

\* C29 as stated: at most one render call issued by the scheduler has been
\* started and not yet completed
C29_AtMostOneInFlight ==
    Cardinality(inflight) <= 1

\* C29 for the renders that count: renderer calls are never cancelled, so
\* several can be in flight, but at most one of them is current (its result
\* would be applied); every other one is stale, with a stamp below the
\* request counter
C29_AtMostOneCurrentInFlight ==
    /\ Cardinality(CurrentInFlight) <= 1
    /\ \A r \in inflight \ CurrentInFlight : r.stamp < requestIdRef

\* three renderer calls are in flight, the latest of them current
C29_Witness ==
    /\ Cardinality(inflight) = 3
    /\ Cardinality(CurrentInFlight) = 1

---------------------------------------------------------------------------
(* Claims about the viewport *)

ScaleInRange(t) ==
    RLeq(Rat(1, 5), t.scale) /\ RLeq(t.scale, RInt(16))

\* the value the contract gives for clamp(t, 0.2, 16), by cases
ClampedTarget(t) ==
    IF RLess(t, Rat(1, 5)) THEN Rat(1, 5)
    ELSE IF RLess(RInt(16), t) THEN RInt(16)
    ELSE t

\* the content coordinate under the viewport pixel (ax, ay) for transform t
ContentUnder(t, ax, ay) ==
    <<RDiv(RSub(RInt(ax), t.x), t.scale), RDiv(RSub(RInt(ay), t.y), t.scale)>>

\* C7: the scale is in [0.2, 16] in every reachable state of the panel
\* (starting from scale 1, under zoom buttons, reset-zoom, wheel zoom and
\* fit-to-view), and every zoom step sets the scale to exactly the clamped
\* target: the target when it is in range, 0.2 below and 16 above.
C7_ScaleInRange ==
    /\ [](ScaleInRange(transform) /\ ScaleInRange(transformRef))
    /\ [](\A t \in ZoomTargets, a \in ZoomAnchors :
            viewOps < MaxViewOps =>
            LET z == ZoomAroundPoint(transform, t, RInt(a[1]), RInt(a[2]))
            IN  /\ z.scale = ClampedTarget(t)
                /\ (t = RInt(1000) => z.scale = RInt(16)))
    /\ [][/\ \A f \in ButtonFactors :
                zoomByFactor(f) =>
                    transform'.scale = ClampedTarget(RMul(transformRef.scale, f))
          /\ \A dy \in WheelDeltas, c \in ClientPoints :
                handleWheelZoom(dy, c[1], c[2]) =>
                    transform'.scale =
                        ClampedTarget(RMul(transformRef.scale, WheelFactor(dy)))
          /\ ResetZoom => transform'.scale = RInt(1)]_vars

\* C7 witness: a zoom-in step at scale 16 asked for 17.6 and the scale
\* stayed 16, away from the fitted position
C7_Witness ==
    /\ viewOps >= 1
    /\ svgSize = [width |-> 20, height |-> 15]
    /\ transform.scale = RInt(16)
    /\ transformRef.scale = RInt(16)
    /\ transform.x # RInt(240)

\* C7 for the function: zoomAroundPoint(t, x, y) sets the scale to exactly
\* clamp(t, 0.2, 16), so a target of 1000 yields 16, and the scale stays in
\* [0.2, 16] for every target.
C7_ZoomSetsClampedTarget ==
    /\ [](ScaleInRange(transform))
    /\ [][\A t \in ZoomTargets, a \in ZoomAnchors :
            applyZoomAroundPoint(t, a[1], a[2]) =>
                /\ transform'.scale = ClampedTarget(t)
                /\ (t = RInt(1000) => transform'.scale = RInt(16))]_vars

\* C8: after zoomAroundPoint the content coordinate under the anchor pixel,
\* computed from the new transform, equals the one computed from the
\* transform before the call.
C8_AnchorInvariance ==
    [][\A t \in ZoomTargets, a \in ZoomAnchors :
        applyZoomAroundPoint(t, a[1], a[2]) =>
            ContentUnder(transform', a[1], a[2]) = ContentUnder(transform, a[1], a[2])]_vars

\* C8 witness: from the fit of the 400x300 surface (scale 1.84 at (32, 24)),
\* a zoom to target 1000 around pixel (60, 30) gave scale 16 and moved the
\* translation
C8_Witness ==
    /\ viewOps = 1
    /\ transform.scale = RInt(16)
    /\ ContentUnder(transform, 60, 30) = <<Rat(350, 23), Rat(75, 23)>>
    /\ transform.x = Rat(-4220, 23)

\* the transform t is the fit of a surface of the given size: the formula
\* of the contract, with the equal margins stated on their own
FittedTo(t, size) ==
    LET w == ViewportRect.clientWidth
        h == ViewportRect.clientHeight
        sw == RDiv(RInt(w - 48), RInt(size.width))
        sh == RDiv(RInt(h - 48), RInt(size.height))
        raw == IF RLess(sh, sw) THEN sh ELSE sw
    IN  /\ t.scale = ClampedTarget(raw)
        /\ t.x = RDiv(RSub(RInt(w), RMul(RInt(size.width), t.scale)), RInt(2))
        /\ t.y = RDiv(RSub(RInt(h), RMul(RInt(size.height), t.scale)), RInt(2))
        /\ RAdd(RAdd(t.x, t.x), RMul(RInt(size.width), t.scale)) = RInt(w)
        /\ RAdd(RAdd(t.y, t.y), RMul(RInt(size.height), t.scale)) = RInt(h)
        /\ (size = [width |-> 400, height |-> 300] => t.scale = Rat(184, 100))

\* C9: fitToView with a known surface size sets scale =
\* clamp(min((clientWidth - 48)/width, (clientHeight - 48)/height), 0.2, 16),
\* x = (clientWidth - width*scale)/2 and y = (clientHeight - height*scale)/2,
\* so that the margins left/right and top/bottom of the surface are equal;
\* for the 800x600 container and the 400x300 surface the scale is 1.84.
C9_FitToView ==
    [][/\ FitFrameFire => FittedTo(transform', fitFrame)
       /\ (svgSize # NoSize /\ FitButton) => FittedTo(transform', svgSize)]_vars

\* C9 witness: after zoom steps the Fit button brought the 400x300 surface
\* back to scale 1.84, centred at (32, 24)
C9_Witness ==
    /\ viewOps >= 1
    /\ fitFrame = NoSize
    /\ svgSize = [width |-> 400, height |-> 300]
    /\ transform = [scale |-> Rat(46, 25), x |-> RInt(32), y |-> RInt(24)]
    /\ transformRef.scale # Rat(46, 25)

\* the step makes a visual result of new dimensions current in the svg style
NewDimensionsStep(size) ==
    /\ renderStyle' = "svg"
    /\ svgSize' = size
    /\ svgSize # size

\* positive sizes of the surfaces the panel is handed
SurfaceSizes ==
    {extractSvgSize(m) : m \in PreviewMarkups \ {EmptyMarkup}} \ {NoSize}

\* the steps that consume the requested frame are those of FitFrameFire
FitFrameRunsIsFitFrameFire ==
    [][FitFrameRuns <=> FitFrameFire]_vars

\* C30: whenever a visual result whose dimensions differ from those of the
\* previous one becomes current in the svg style, a frame is requested for
\* fitToView with the new dimensions, and the frame callback eventually sets
\* the transform to the fit scale and centred translation of these
\* dimensions, unless the surface is replaced or removed first
C30_AutoFit ==
    /\ [][\A size \in SurfaceSizes :
             NewDimensionsStep(size) => fitFrame' = size]_vars
    /\ \A size \in SurfaceSizes :
          (fitFrame = size) ~> (FittedTo(transform, size) \/ svgSize # size)

\* the 20x15 surface replaced the fitted 400x300 one, and the frame callback
\* has fitted it: the transform is the fit of 20x15 while transformRef still
\* holds the fit of 400x300
C30_Witness ==
    /\ svgSize = [width |-> 20, height |-> 15]
    /\ fitFrame = NoSize
    /\ FittedTo(transform, svgSize)
    /\ FittedTo(transformRef, [width |-> 400, height |-> 300])

\* a fit or zoom operation of the panel
FitOrZoomStep ==
    \/ FitButton
    \/ ResetZoom
    \/ \E f \in ButtonFactors : zoomByFactor(f)
    \/ \E dy \in WheelDeltas, c \in ClientPoints : handleWheelZoom(dy, c[1], c[2])

\* C10 as stated: a fit or zoom operation requested while no surface size is
\* known leaves the viewport transform unchanged.
C10_FitOrZoomWithoutSizeIsNoOp ==
    [][(svgSize = NoSize /\ FitOrZoomStep) => transform' = transform]_vars

\* C10 amended: fitToView requested while no surface size is known leaves
\* the viewport transform unchanged; the zoom operations do not look at the
\* surface size and set the clamped target scale whether or not it is known.
C10_FitWithoutSizeIsNoOp ==
    [][/\ (svgSize = NoSize /\ FitButton) => transform' = transform
       /\ \A f \in ButtonFactors :
            (svgSize = NoSize /\ zoomByFactor(f)) =>
                transform'.scale = ClampedTarget(RMul(transformRef.scale, f))]_vars

\* C10 witness: a surface without a readable size is shown and the transform
\* has been zoomed away from its initial value
C10_Witness ==
    /\ isSvgReady
    /\ svgSize = NoSize
    /\ fitFrame = NoSize
    /\ viewOps >= 1
    /\ transform.scale = Rat(11, 10)

\* C11: zoomByFactor(f) has the effect of zoomAroundPoint(s * f,
\* clientWidth/2, clientHeight/2), where s is the scale of the current
\* transform at the time of the call, whether or not the transformRef effect
\* has run since the transform last changed.
C11_ZoomByFactorUsesCurrentScale ==
    [][\A f \in ButtonFactors :
        zoomByFactor(f) =>
            transform' = ZoomAroundPoint(transform, RMul(transform.scale, f),
                                         Rat(ViewportRect.clientWidth, 2),
                                         Rat(ViewportRect.clientHeight, 2))]_vars

\* C11 with the reference in step: when transformRef holds the current
\* transform, zoomByFactor(f) multiplies the current scale by f
C11_ZoomByFactorWhenRefCurrent ==
    [][\A f \in ButtonFactors :
        (transformRef = transform /\ zoomByFactor(f)) =>
            transform'.scale = ClampedTarget(RMul(transform.scale, f))]_vars

\* a wheel event at client point c with vertical delta dy
WheelStep(dy, c) == handleWheelZoom(dy, c[1], c[2])

\* C37: a wheel event zooms around the pointer position relative to the
\* viewport: the scale becomes the current scale times 1.08 when deltaY < 0
\* and times 0.92 in every other case (deltaY = 0 included), clamped to
\* [0.2, 16], the content point under the pointer stays under it, and the
\* drag session is not opened, closed or modified.
C37_WheelMultipliesCurrentScale ==
    [][\A dy \in WheelDeltas, c \in ClientPoints :
        WheelStep(dy, c) =>
            /\ transform'.scale =
                  ClampedTarget(RMul(transform.scale,
                                     IF dy < 0 THEN Rat(108, 100) ELSE Rat(92, 100)))
            /\ ContentUnder(transform', c[1] - ViewportRect.left,
                                        c[2] - ViewportRect.top) =
                  ContentUnder(transform, c[1] - ViewportRect.left,
                                          c[2] - ViewportRect.top)
            /\ dragRef' = dragRef]_vars

\* C37 with the reference in step: when transformRef holds the current
\* transform, the wheel event does all that the claim says
C37_WheelWhenRefCurrent ==
    [][\A dy \in WheelDeltas, c \in ClientPoints :
        (transformRef = transform /\ WheelStep(dy, c)) =>
            /\ transform'.scale =
                  ClampedTarget(RMul(transform.scale,
                                     IF dy < 0 THEN Rat(108, 100) ELSE Rat(92, 100)))
            /\ ContentUnder(transform', c[1] - ViewportRect.left,
                                        c[2] - ViewportRect.top) =
                  ContentUnder(transform, c[1] - ViewportRect.left,
                                          c[2] - ViewportRect.top)
            /\ dragRef' = dragRef]_vars

---------------------------------------------------------------------------
(* Claims about drag-to-pan, checked under SpecDrag and SpecDragSettled *)

\* a pointer-down, pointer-move or pointer-up step of pointer p
PointerDownStep(p) == \E c \in ClientPoints : handlePointerDown(p, c[1], c[2])

PointerMoveStep(p) == \E c \in MovePoints : handlePointerMove(p, c[1], c[2])

\* C12: while a drag session is open for pointer p and the surface is
\* shown, a pointer-move of p to (cx, cy) sets the translation to
\* (startX + cx - startClientX, startY + cy - startClientY) with the start
\* values of the session and keeps the scale; the start values are the ones
\* the pointer-down recorded (the session changes in pointer-down and
\* pointer-up steps only); pointer-down and pointer-up never change the
\* transform.
C12_DragTranslates ==
    [][/\ \A p \in PointerIds, c \in MovePoints :
            (/\ isSvgReady
             /\ dragRef # NoDrag
             /\ dragRef.pointerId = p
             /\ handlePointerMove(p, c[1], c[2]))
            => /\ transform'.scale = transform.scale
               /\ transform'.x = RAdd(dragRef.startX, RInt(c[1] - dragRef.startClientX))
               /\ transform'.y = RAdd(dragRef.startY, RInt(c[2] - dragRef.startClientY))
       /\ \A p \in PointerIds, c \in ClientPoints :
            (isSvgReady /\ handlePointerDown(p, c[1], c[2]))
            => /\ transform' = transform
               /\ dragRef' = [pointerId |-> p,
                              startClientX |-> c[1], startClientY |-> c[2],
                              startX |-> transformRef.x, startY |-> transformRef.y]
       /\ \A p \in PointerIds : handlePointerUp(p) => transform' = transform
       /\ dragRef' # dragRef =>
            \E p \in PointerIds : PointerDownStep(p) \/ handlePointerUp(p)]_vars

\* C12 witness: the session of a pointer that went down on the fitted
\* 400x300 surface is open, a move to (1140, 640) has panned the surface by
\* (640, 490) at unchanged scale, and the reference has followed
C12_Witness ==
    /\ isSvgReady
    /\ dragRef # NoDrag
    /\ dragRef.startX = RInt(32)
    /\ dragRef.startY = RInt(24)
    /\ transform = [scale |-> Rat(46, 25), x |-> RInt(672), y |-> RInt(514)]
    /\ transformRef = transform

\* C13: a pointer-move or pointer-up whose pointer id differs from the open
\* session's, or that arrives when no session is open, leaves the transform
\* and the session unchanged; a pointer-up with the session's pointer id,
\* handled by the panel, closes the session.
C13_ForeignPointerIgnored ==
    [][/\ \A p \in PointerIds :
            ((dragRef = NoDrag \/ dragRef.pointerId # p)
             /\ (PointerMoveStep(p) \/ handlePointerUp(p)))
            => (transform' = transform /\ dragRef' = dragRef)
       /\ \A p \in PointerIds :
            (/\ isSvgReady
             /\ dragRef # NoDrag
             /\ dragRef.pointerId = p
             /\ handlePointerUp(p))
            => dragRef' = NoDrag]_vars

\* C13 witness: a session panned the fitted surface by (640, 490) and the
\* pointer-up of its pointer closed it, while pointer 1 is still down with no
\* session open: the moves and the release of pointer 1 find no session
C13_Witness ==
    /\ isSvgReady
    /\ dragRef = NoDrag
    /\ pointersDown = {1}
    /\ transform = [scale |-> Rat(46, 25), x |-> RInt(672), y |-> RInt(514)]

\* C14: a pointer-down received while a drag session is open is ignored:
\* the open session (pointer id and recorded start positions) is unchanged.
C14_SecondPointerDownIgnored ==
    [][\A p \in PointerIds :
        (dragRef # NoDrag /\ PointerDownStep(p)) => dragRef' = dragRef]_vars

\* C15: in every reachable state in which no pointer is down on the
\* viewport the drag session is absent.
C15_NoSessionWithoutPointerDown ==
    pointersDown = {} => dragRef = NoDrag

\* C15, the consequence: a pointer-move while no pointer is down never
\* changes the transform.
C15_HoverNeverPans ==
    [][\A p \in PointerIds :
        (pointersDown = {} /\ PointerMoveStep(p)) => transform' = transform]_vars

\* positions a pointer can be at: where it went down or where it moved to
PointerPositions == ClientPoints \cup MovePoints

\* C35: a fit (or zoom) interleaved with an open drag session keeps the
\* anchoring of the drag: in every pointer-move of the session's pointer to
\* c, the content point that was under the pointer before the move (at some
\* position q) is under the pointer after it, so the transform after the
\* move is the transform before it, translation of a fit included, shifted
\* by the pointer's displacement.
C35_DragKeepsFitTranslation ==
    [][\A p \in PointerIds, c \in MovePoints :
        (isSvgReady /\ MatchesSession(dragRef, p) /\ handlePointerMove(p, c[1], c[2])) =>
            \E q \in PointerPositions :
                ContentUnder(transform', c[1] - ViewportRect.left,
                                         c[2] - ViewportRect.top) =
                ContentUnder(transform, q[1] - ViewportRect.left,
                                        q[2] - ViewportRect.top)]_vars

---------------------------------------------------------------------------
(* Claims about the share-link codec, checked under SpecCodec *)

\* the string has no lone surrogate (String.prototype.isWellFormed)
IsWellFormed(source) ==
    FromScalarValues(ToScalarValues(source)) = source

\* C16: for every string s, decode(encode(s)) completes without error and
\* returns s when both run with the same compression backend. Stated for
\* the well-formed strings: the ones UTF-8 can carry.
C16_RoundTrip ==
    (/\ decodeResult # NoResult
     /\ encodeBackend = decodeBackend
     /\ IsWellFormed(shareSource))
        => decodeResult = Resolved(shareSource)

\* C17: a token made with one compression backend decodes to the original
\* source with the other backend, in both directions
C17_CrossBackend ==
    (/\ decodeResult # NoResult
     /\ encodeBackend # decodeBackend)
        => decodeResult = Resolved(shareSource)

\* the token carries the version but not the "v1.d." prefix
HasUnsupportedTag(token) ==
    StartsWith(token, VERSION_PREFIX) /\ ~StartsWith(token, SHARE_PREFIX)

\* C18: decode of a token that starts with "v1." but not with "v1.d." fails
\* with the unsupported-format error, raised before base64 decoding or
\* decompression is attempted, and never returns text
C18_FormatRejection ==
    (foreignResult # NoResult /\ HasUnsupportedTag(tokenInput))
        => foreignResult =
              Rejected("Unsupported share link format version.", "getPayloadFromToken")

C18_Witness ==
    /\ tokenInput = <<"v", "1", ".", "z", ".", "A", "A", "A", "A">>
    /\ foreignResult.kind = "error"

\* the same text, or an error both times
SameOutcome(a, b) ==
    \/ a.kind = "text" /\ b.kind = "text" /\ a.text = b.text
    \/ a.kind = "error" /\ b.kind = "error"

\* C19: a token t that does not start with "v1." is the raw payload as a
\* whole: decode(t) has the same outcome as decode("v1.d." + t)
C19_LegacyToken ==
    (foreignResult # NoResult /\ ~StartsWith(tokenInput, VERSION_PREFIX))
        => SameOutcome(foreignResult, taggedResult)

C19_Witness ==
    /\ tokenInput = bytesToBase64Url(ZlibDeflate(TextEncode(<<103, 8364>>)))
    /\ foreignResult = Resolved(<<103, 8364>>)
    /\ taggedResult = Resolved(<<103, 8364>>)

\* A-Z, a-z, 0-9, '-' and '_'
Base64UrlChars ==
    (Base64Chars \ {"+", "/"}) \cup {"-", "_"}

\* C20: a token returned by encode is "v1.d." followed by a non-empty
\* payload of base64url characters only: no '+', '/' or '=' padding
C20_TokenGrammar ==
    shareToken # << >> =>
        /\ StartsWith(shareToken, SHARE_PREFIX)
        /\ Len(shareToken) > Len(SHARE_PREFIX)
        /\ \A i \in (Len(SHARE_PREFIX) + 1)..Len(shareToken) :
              shareToken[i] \in Base64UrlChars

\* the token of the empty string, made by fflate: its base64 form has a
\* '/' and '=' padding
C20_Witness ==
    /\ shareSource = << >>
    /\ encodeBackend = "fflate"
    /\ shareToken = SHARE_PREFIX \o <<"A", "Q", "A", "A", "_", "_", "8">>

\* the bytes are the UTF-8 form of some text
IsValidUtf8(bytes) ==
    Utf8OfScalars(Utf8Decode(bytes)) = bytes

\* the payload is empty, is not base64, does not decompress, or decompresses
\* to bytes that are not UTF-8
IsBadPayload(payload, backend) ==
    LET compressed == base64UrlToBytes(payload)
        decompressed == decompressBytes(compressed.bytes, backend)
    IN  \/ payload = << >>
        \/ ~compressed.ok
        \/ ~decompressed.ok
        \/ ~IsValidUtf8(decompressed.bytes)

\* C21: decode of a token whose payload is empty, is not valid base64, does
\* not decompress, or decompresses to bytes that are not valid UTF-8,
\* raises an error and returns no string
C21_BadPayloadRaises ==
    (/\ taggedResult # NoResult
     /\ IsBadPayload(tokenInput, decodeBackend))
        => taggedResult.kind = "error"

\* decode raises for the payloads that are empty, not base64 or do not
\* decompress
C21_UndecodablePayloadRaises ==
    (/\ taggedResult # NoResult
     /\ LET compressed == base64UrlToBytes(tokenInput)
        IN  \/ ~compressed.ok
            \/ ~decompressBytes(compressed.bytes, decodeBackend).ok)
        => taggedResult.kind = "error"

---------------------------------------------------------------------------
(* Claims about the share link in a URL, checked under SpecUrl *)

\* the value of the `diagram` parameter of the fragment
FragmentToken(url) ==
    ParamsGet(HashParams(url), SHARE_PARAM)

\* the value of the `diagram` parameter of the query string
QueryToken(url) ==
    ParamsGet(ParseParams(url.search), SHARE_PARAM)

\* C22: readToken(url) is the value of the `diagram` parameter of the
\* fragment when the fragment has one, otherwise that of the query string,
\* otherwise null; the fragment wins when both are present
C22_ReadToken ==
    tokenRead # NotRead =>
        /\ FragmentToken(locationHref).found
              => tokenRead = FragmentToken(locationHref)
        /\ (~FragmentToken(locationHref).found /\ QueryToken(locationHref).found)
              => tokenRead = QueryToken(locationHref)
        /\ (~FragmentToken(locationHref).found /\ ~QueryToken(locationHref).found)
              => tokenRead = NullValue

\* both places carry a token and the one of the fragment was returned
C22_Witness ==
    /\ locationHref.search = <<"d", "i", "a", "g", "r", "a", "m", "=", "e", "J", "w">>
    /\ locationHref.hash = <<"d", "i", "a", "g", "r", "a", "m", "=", "v", "1", ".", "d", ".", "A", "Q">>
    /\ tokenRead = [found |-> TRUE, value |-> <<"v", "1", ".", "d", ".", "A", "Q">>]

\* C23: writeToken(url, token) returns a URL whose fragment carries
\* diagram=token and whose query string has no `diagram` parameter;
\* readToken of it is the token, and writing the token again changes nothing
C23_WriteToken ==
    [][\A token \in UrlTokens :
          WriteToken(token) =>
              /\ FragmentToken(locationHref') = [found |-> TRUE, value |-> token]
              /\ ~QueryToken(locationHref').found
              /\ readDiagramTokenFromUrl(locationHref') = [found |-> TRUE, value |-> token]
              /\ writeDiagramTokenToUrl(locationHref', token) = locationHref']_vars

\* a token of escaped characters, written over a URL that carried a token in
\* the query string, and read back
C23_Witness ==
    /\ locationHref.search = <<"x", "=", "1", "&", "y", "=", "2">>
    /\ tokenRead = [found |-> TRUE, value |-> <<"a", "&", "b", "=", "c", "+", "%", "#", "/">>]

\* C24: clearToken(url) returns a URL with no `diagram` parameter in the
\* fragment and none in the query string, so readToken of it is null
C24_ClearToken ==
    [][ClearToken =>
          /\ ~FragmentToken(locationHref').found
          /\ ~QueryToken(locationHref').found
          /\ readDiagramTokenFromUrl(locationHref') = NullValue]_vars

\* the URL that carried the parameter in both places, cleared and read
C24_Witness ==
    /\ locationHref.search = <<"q", "=", "1">>
    /\ locationHref.hash = <<"t", "=", "1">>
    /\ tokenRead = NullValue

\* the source is empty or of white space only
IsBlank(source) ==
    \A i \in 1..Len(source) : source[i] \in WhiteSpace

\* C25: the share URL of a source that equals a built-in preset, or is empty
\* or of white space only, has no `diagram` parameter in fragment or query,
\* whatever the current URL carried; for every other source it carries the
\* token of that source in the fragment
C25_UrlElision ==
    [][\A source \in ShareSources :
          BuildShareUrl(source) =>
              IF IsBlank(source) \/ source \in PresetUnits
                THEN /\ ~FragmentToken(locationHref').found
                     /\ ~QueryToken(locationHref').found
                ELSE FragmentToken(locationHref') =
                        [found |-> TRUE,
                         value |-> encodeDiagramToken(source, encodeBackend)]]_vars

\* the share URL of the default preset, built when the URL carried a token
\* in both places
C25_Witness ==
    /\ shareSource = SourceUnits("graph TD")
    /\ locationHref.search = <<"q", "=", "1">>
    /\ locationHref.hash = <<"t", "=", "1">>

\* the parameters of a list other than `diagram`, in their order
OtherParams(params) ==
    SelectSeq(params, LAMBDA pair : pair[1] # SHARE_PARAM)

\* C36: writeToken and clearToken leave the URL object passed in as it was,
\* and the URL they return has the origin, the path and, name by name and
\* value by value, every fragment parameter and every query parameter other
\* than `diagram` of the input
C36_PureUrlFunctions ==
    [][(ClearToken \/ \E token \in UrlTokens : WriteToken(token)) =>
          /\ urlArg' = locationHref
          /\ locationHref'.origin = locationHref.origin
          /\ locationHref'.pathname = locationHref.pathname
          /\ OtherParams(HashParams(locationHref')) = OtherParams(HashParams(locationHref))
          /\ OtherParams(ParseParams(locationHref'.search)) =
                OtherParams(ParseParams(locationHref.search))]_vars

\* a token written over the URL ?x=1&diagram=eJw&y=2#section: the argument
\* still has its query string and fragment, the returned URL has x and y in
\* the query string and section next to the token in the fragment
C36_Witness ==
    /\ urlArg.search = <<"x", "=", "1", "&", "d", "i", "a", "g", "r", "a", "m", "=", "e", "J", "w", "&", "y", "=", "2">>
    /\ urlArg.hash = <<"s", "e", "c", "t", "i", "o", "n">>
    /\ locationHref.search = <<"x", "=", "1", "&", "y", "=", "2">>
    /\ locationHref.hash = <<"s", "e", "c", "t", "i", "o", "n", "=", "&", "d", "i", "a", "g", "r", "a", "m", "=">>

---------------------------------------------------------------------------
(* Claims about the session of a loaded page, checked under SpecShare *)

\* the token readDiagramTokenFromUrl finds in the URL the page was loaded with
LoadToken ==
    readDiagramTokenFromUrl(loadHref)

\* decodeDiagramToken rejects the token of the URL the page was loaded with
LoadTokenFails ==
    /\ LoadToken.found
    /\ decodeDiagramToken(LoadToken.value, decodeBackend).kind # "text"

\* the step is the rest of a hydration run whose decodeDiagramToken rejected:
\* the run ends, and not because a style or theme change cancelled it
FailedHydrationStep ==
    /\ hydration # NoHydration
    /\ decodeDiagramToken(hydration.token, decodeBackend).kind # "text"
    /\ hydration' = NoHydration
    /\ renderStyle' = renderStyle
    /\ mermaidTheme' = mermaidTheme

\* the step calls the renderer for the source with the style and the theme
\* of the closure
RendersWith(source, style, theme) ==
    /\ requestIdRef' = requestIdRef + 1
    /\ IF style = "svg"
         THEN [stamp |-> requestIdRef', src |-> source, theme |-> theme,
               seq |-> issueSeq'] \in inflight'
         ELSE /\ lastSettled'.call = "render"
              /\ lastSettled'.src = source
              /\ lastSettled'.stamp = requestIdRef'

\* the step starts or makes the replacement of the URL by the share URL of
\* the source
SyncsUrlFor(source) ==
    \/ [src |-> source, url |-> locationHref] \in urlSyncs'
    \/ /\ urlSyncs' = urlSyncs
       /\ locationHref' =
             IF IsBlank(SourceUnits(source)) \/ SourceUnits(source) \in PresetUnits
               THEN clearDiagramTokenFromUrl(locationHref)
               ELSE writeDiagramTokenToUrl(locationHref,
                        encodeDiagramToken(SourceUnits(source), encodeBackend))

\* C26 as stated: when the page is loaded with a `diagram` token whose
\* decoding fails, once the mount effects have run to their end the "Invalid
\* share link" notice has been shown
C26_FailingTokenNotice ==
    (mounted /\ hydration = NoHydration /\ LoadTokenFails) => noticeShown

\* C26 for a token that is not empty: when the page is loaded with a
\* non-empty `diagram` token whose decoding fails, the hydration run shows
\* the "Invalid share link" notice, leaves the source and the editor as they
\* were (the default diagram, if nothing was typed meanwhile), and sets
\* hasHydratedShareLink; the timer of an edit made after that renders the
\* edit and syncs it to the URL, and so does a commit
C26_InvalidShareLink ==
    /\ []((mounted /\ hydration = NoHydration /\ LoadTokenFails
             /\ LoadToken.value # << >>)
            => (noticeShown /\ hasHydratedShareLink))
    /\ []((LoadTokenFails /\ nextTimerId = 1) => sourceRef = DEFAULT_SOURCE)
    /\ [][FailedHydrationStep =>
             /\ actionMessage' = "Invalid share link"
             /\ hasHydratedShareLink'
             /\ sourceRef' = sourceRef
             /\ sourceSeed' = sourceSeed
             /\ editorSource' = editorSource
             /\ requestIdRef' = requestIdRef
             /\ locationHref' = locationHref]_vars
    /\ [][\A t \in timers :
             (noticeShown /\ t.hydrated /\ TimerFire(t)) =>
                 /\ RendersWith(t.src, t.style, t.theme)
                 /\ SyncsUrlFor(t.src)]_vars
    /\ [][(noticeShown /\ hasHydratedShareLink /\ Blur) =>
             /\ RendersWith(editorSource, renderStyle, mermaidTheme)
             /\ SyncsUrlFor(editorSource)]_vars

\* the page loaded with a link of another backend: the notice was shown, and
\* the edit typed after it has been rendered and its token is in the URL
C26_Witness ==
    /\ LoadTokenFails
    /\ LoadToken.value # << >>
    /\ noticeShown
    /\ hasHydratedShareLink
    /\ sourceRef = "abc"
    /\ timers = {}
    /\ urlSyncs = {}
    /\ FragmentToken(locationHref) =
          [found |-> TRUE,
           value |-> encodeDiagramToken(SourceUnits("abc"), encodeBackend)]

\* the step is one of the edit handlers: handleSourceInput, commitSourceNow
\* (blur of the editor) or the two of them for a preset
EditHandlerStep ==
    \/ \E s \in Sources : handleSourceInput(s)
    \/ Blur
    \/ \E p \in PresetSources : applySelectedPreset(p)

\* C28 as stated: the diagram source changes only in the edit handlers
C28_OnlyEditHandlersWrite ==
    [][sourceRef' # sourceRef => EditHandlerStep]_vars

\* C28 with the second writer: the diagram source changes only in the edit
\* handlers and in the share-link hydration run, which assigns the source it
\* decoded from the token of the URL; the other operations (mount, timer,
\* render completion, style change, URL sync, notice timeout) leave it as it
\* was
C28_SourceWriters ==
    [][sourceRef' # sourceRef =>
          \/ EditHandlerStep
          \/ /\ HydrationSettle
             /\ decodeDiagramToken(hydration.token, decodeBackend).kind = "text"
             /\ sourceRef' =
                   SourceOfUnits(decodeDiagramToken(hydration.token, decodeBackend).text)]_vars

\* the hydration run has assigned the source of the link, and an edit has
\* replaced it
C28_Witness ==
    /\ sourceSeed = "ab"
    /\ sourceRef = "abc"
    /\ hasHydratedShareLink
    /\ hydration = NoHydration

\* an edit, the firing of an edit's timer, or a commit
EditOrCommitStep ==
    \/ \E s \in ShareEdits : handleSourceInput(s)
    \/ \E t \in timers : TimerFire(t)
    \/ Blur

\* C32: before the share-link hydration has completed, an edit, a timer or
\* a commit neither rewrites the address bar nor starts a URL sync, and no
\* step removes or replaces the token of the URL: the only writer is the
\* hydration run itself, whose canonical write keeps the token.
C32_NoSyncBeforeHydration ==
    /\ [](~hasHydratedShareLink => urlSyncs = {})
    /\ [][(~hasHydratedShareLink /\ EditOrCommitStep) =>
             /\ locationHref' = locationHref
             /\ urlSyncs' = {}]_vars
    /\ [][~hasHydratedShareLink =>
             readDiagramTokenFromUrl(locationHref') =
                readDiagramTokenFromUrl(locationHref)]_vars

\* C32 witness: the page was loaded with a link, "abc" was typed and
\* committed while the token was being decoded, and the URL is the one of
\* the load
C32_Witness ==
    /\ ~hasHydratedShareLink
    /\ hydration # NoHydration
    /\ LoadToken.found
    /\ sourceRef = "abc"
    /\ timers = {}
    /\ requestIdRef >= 2
    /\ locationHref = loadHref

\* the step is the rest of a hydration run that a style or theme change
\* started after the page had hydrated, with a decode that settles before
\* any other task runs: nothing happened between the change and this step
StyleChangeHydrationStep ==
    /\ HydrationSettle
    /\ hasHydratedShareLink
    /\ hydration.sync

\* C33: changing the render style or the theme never changes the session's
\* current source text: the source is the same after the change step, and
\* the same again after the asynchronous work the change triggered (the
\* re-run of the share-link hydration effect) has completed, even when the
\* address bar still carries a token of an earlier source.
C33_StyleChangeKeepsSource ==
    [][((\E st \in ShareStyles : setRenderStyle(st)) \/ StyleChangeHydrationStep)
          => sourceRef' = sourceRef]_vars

\* the source text whose rendering (markup or error message) is displayed
DisplayedSource ==
    IF renderError # NoError THEN renderError.src
    ELSE IF NonEmptyMarkup(svgMarkup) THEN svgMarkup.src
    ELSE asciiMarkup.src

\* C34: at quiescence (no debounce timer pending, no render and no token
\* decode in flight) the displayed result is the result of rendering the
\* session's current source text, the text renderSvgSnapshot renders for
\* export and copy, for every interleaving of edits, commits, style changes
\* and share-link hydration.
C34_QuiescentShowsCurrentSource ==
    (mounted /\ Quiescent /\ hydration = NoHydration)
        => DisplayedSource = sourceRef

---------------------------------------------------------------------------
(* Claims about concurrent URL syncs, checked under SpecSync *)

\* the `diagram` token of the URL is the one of the source: absent for a
\* preset or a blank source, its encoded token otherwise
UrlTokenIsFor(source) ==
    LET token == readDiagramTokenFromUrl(locationHref)
    IN  IF IsBlank(SourceUnits(source)) \/ SourceUnits(source) \in PresetUnits
          THEN ~token.found
          ELSE /\ token.found
               /\ token.value = encodeDiagramToken(SourceUnits(source), encodeBackend)

\* C31: after hydration, once the timer of the last edit has fired and
\* every asynchronous token encoding has completed, the `diagram` token of
\* the URL is the one of the most recently edited source (absent for a
\* preset or blank source), whatever the order in which concurrent URL syncs
\* completed.
C31_UrlMatchesLastEdit ==
    (mounted /\ hasHydratedShareLink /\ hydration = NoHydration
        /\ timers = {} /\ urlSyncs = {})
        => UrlTokenIsFor(lastEditSource)

====
